---------------------------- MODULE Spec2Model ----------------------------
(***************************************************************************)
(* A model of xspect-build/packages: the runtime of @xspect-build/python   *)
(* (download / extract / getPythonPath), the runtime resolver of           *)
(* @xspect-build/patchelf (findBinaryPath / getPatchelfPath) and the build *)
(* scripts build-platform.js and build-python.js.                          *)
(*                                                                         *)
(* Paths are sequences of path segments: path.join is \o.  A platform key  *)
(* `${os}-${cpu}` is the pair <<os, cpu>>, a scoped package name           *)
(* `${SCOPE}/${tool}-${os}-${cpu}` is the tuple <<SCOPE, tool, os, cpu>>.  *)
(***************************************************************************)
EXTENDS Integers, Sequences, FiniteSets, TLC

VARIABLES
    \* ---- runtime of @xspect-build/python -------------------------------
    host,       \* <<process.platform, process.arch>>
    pc,         \* per process: the statement it stands at
    call,       \* per process: the call in progress: [op, version, dest]
    disk,       \* file path -> NoFile or [src, mode] (regular files)
    dirs,       \* the destination directories that exist
    tmp,        \* files of os.tmpdir(): file name -> Absent, "good", "corrupt"
    tgz,        \* per process: tgzFile picked by download, or NoTgz
    archive,    \* per process: the Archive held: the version it was packed from
    idx,        \* per process: number of archive entries unpacked so far
    res,        \* per process: the outcome of the call
    prev,       \* per process: summary of its previous call (history)
    ncalls,     \* per process: number of calls started (history)
    cmds,       \* transport commands started so far (history)
    \* ---- runtime resolver of @xspect-build/patchelf --------------------
    nm,         \* the installed files the resolver looks at: path -> kind
    nox,        \* the installed paths fs.accessSync(path, X_OK) throws on
    rret,       \* the last lookup or resolver call and its outcome
    \* ---- build scripts -------------------------------------------------
    bpc,        \* statement the build script stands at
    barg,       \* the script run and its arguments
    benv,       \* whether GITHUB_TOKEN is set in the environment
    btmp,       \* files of .tmp: name -> content
    bdist,      \* files written below dist: set of [dir, file, data]
    bcmds,      \* commands this run has started, in order
    bexit,      \* how the run ended
    bruns,      \* number of script runs started
    bloop,      \* build.js: index of the platform its loop stands at
    blog,       \* what this run has written with console.error
    \* ---- permission pass (extract, postinstall) ------------------------
    ptree,      \* the installed payload: path -> [kind, mode]
    pro,        \* the files chmodSync throws on (read-only mount, foreign owner)
    pinst,      \* whether require.resolve finds the platform package
    pret,       \* the last permission pass run and its outcome
    \* ---- symbolic links (replaceSymlinks, copyDir) ---------------------
    stree,      \* the tree replaceSymlinks works on: path -> node
    sinit,      \* the tree as the archive was extracted (history)
    swork,      \* the active calls of replaceSymlinks: <<[dir, todo]>>, innermost last
    spc,        \* "idle", "walk", "done" (replaceSymlinks) or "copied" (copyDir)
    sdest,      \* the tree copyDir wrote
    \* ---- the main package (prepare-main-package.js) --------------------
    msrc,       \* packages/<packageName>/package.json as checked out
    mmain,      \* dist/<packageName>/package.json as prepareMainPackage wrote it
    mbuilt      \* the --version each platform package of dist/ was built with (history)

rtVars == <<host, pc, call, disk, dirs, tmp, tgz, archive, idx, res, prev, ncalls, cmds>>
rsVars == <<nm, nox, rret>>
bdVars == <<bpc, barg, benv, btmp, bdist, bcmds, bexit, bruns, bloop, blog>>
pmVars == <<ptree, pro, pinst, pret>>
slVars == <<stree, sinit, swork, spc, sdest>>
mnVars == <<msrc, mmain, mbuilt>>
trVars == <<pmVars, slVars, mnVars>>
vars == <<rtVars, rsVars, bdVars, trVars>>

-----------------------------------------------------------------------------
(* Values shared by the three parts.                                       *)

SCOPE == "@xspect-build"

None == "none"
Absent == "absent"
Undefined == "undefined"

\* process.platform x process.arch values a host can report
OsNames == {"darwin", "linux", "win32"}
CpuNames == {"x64", "arm64", "arm", "ia32"}
PlatformKeys == OsNames \X CpuNames

\* `${SCOPE}/${tool}-${os}-${cpu}`
PackageName(tool, key) == <<SCOPE, tool, key[1], key[2]>>


-----------------------------------------------------------------------------
(* @xspect-build/python, lib/index.js: download, extract, getPythonPath.   *)

Procs == {"p1", "p2"}

\* Total number of API calls made by all processes together.
MaxCalls == 2

\* null, or undefined, where a package name or a path is expected
Null == <<>>
NoReturn == [op |-> None, kind |-> None, val |-> <<>>]

CACHE_DIR == <<"~", ".xspect-build", "python">>

pythonPlatformPackageMap ==
    (<<"linux", "arm64">> :> <<"@xspect-build", "python", "linux", "arm64">>) @@
    (<<"linux", "x64">> :> <<"@xspect-build", "python", "linux", "x64">>)

\* The lookup falling back to a default package instead of null
getPlatformPackageNameDefault(key) ==
    IF key \in DOMAIN pythonPlatformPackageMap THEN pythonPlatformPackageMap[key]
    ELSE pythonPlatformPackageMap[<<"linux", "x64">>]

\* platformPackageMap[platformKey] || null
getPlatformPackageName(key) ==
    IF key \in DOMAIN pythonPlatformPackageMap THEN pythonPlatformPackageMap[key] ELSE Null

\* Versions a caller pins, and the values `options.version` can take
Versions == {"3.9.13-install-only.1", "python3.9.13"}
VersionArgs == Versions \cup {Undefined, ""}

\* The check written as `version === undefined`
VersionMissingStrict(v) == v = Undefined

\* !version
VersionMissing(v) == v \in {Undefined, ""}

\* Values of `dest`: none given (undefined, null or the empty string), or a directory
NoDest == <<>>
DestArgs == {NoDest, <<"proj">>}

\* dest || path.join(CACHE_DIR, version)
DestPath(dest, version) == IF dest = NoDest THEN CACHE_DIR \o <<version>> ELSE dest
PythonDir(destPath) == destPath \o <<"package", "python">>
MarkerFile(destPath) == destPath \o <<"package.json">>

DestPaths == {DestPath(d, v) : d \in DestArgs, v \in Versions}

\* The entries of the tarball `npm pack` produces for a platform package built by
\* build-python.js: package.json and the files: ['python'] tree, all below package/.
\* The registry does not keep the execute bit: every entry arrives as 0o644.
ArchiveEntries ==
    << [path |-> <<"package", "package.json">>, mode |-> 420],
       [path |-> <<"package", "python", "bin", "python3">>, mode |-> 420],
       [path |-> <<"package", "python", "lib", "libpython3.9.so">>, mode |-> 420] >>

\* 0o755
Mode755 == 493

RelPaths == {<<"package.json">>} \cup {ArchiveEntries[i].path : i \in 1..Len(ArchiveEntries)}
Paths == {d \o r : d \in DestPaths, r \in RelPaths}

\* fs.existsSync
NoFile == [src |-> None, mode |-> 0]
existsSync(path) == path \in DOMAIN disk /\ disk[path] # NoFile

\* Names of the files of os.tmpdir(): the tarballs npm pack writes, named after the
\* package and the version, and a file of another program.
TgzName(pkg, version) == [prefix |-> "xspect-build-python-", pkg |-> pkg, version |-> version, ext |-> ".tgz"]
OtherTmpFile == [prefix |-> "npm-", pkg |-> Null, version |-> "", ext |-> ".log"]
\* A tarball of an older version that a killed earlier run left in os.tmpdir()
LeftoverTgz == TgzName(pythonPlatformPackageMap[<<"linux", "x64">>], "3.9.12-install-only.1")
TmpNames ==
    {TgzName(pythonPlatformPackageMap[k], v) :
        k \in DOMAIN pythonPlatformPackageMap, v \in Versions}
    \cup {LeftoverTgz, OtherTmpFile}

\* f.startsWith('xspect-build-python-') && f.endsWith('.tgz')
IsTgz(f) == f.prefix = "xspect-build-python-" /\ f.ext = ".tgz"

NoTgz == [prefix |-> "", pkg |-> Null, version |-> "", ext |-> ""]
NoResult == [kind |-> None, val |-> <<>>, at |-> None, hit |-> FALSE, packs |-> 0]
NoCall == [op |-> None, version |-> Undefined, dest |-> NoDest]

Threw(p, stage, msg) ==
    /\ pc' = [pc EXCEPT ![p] = "thrown"]
    /\ res' = [res EXCEPT ![p].kind = "throw", ![p].val = <<msg>>, ![p].at = stage]

TotalCalls == ncalls["p1"] + ncalls["p2"]

\* download(version), up to the call of npm pack: what it does next
DownloadEntry(version) ==
    IF VersionMissing(version)
      THEN [pc |-> "thrown", at |-> "download", val |-> <<"version is required">>]
      ELSE IF getPlatformPackageName(host) = Null
             THEN [pc |-> "thrown", at |-> "download", val |-> <<"Unsupported platform">>]
             ELSE [pc |-> "npmPack", at |-> None, val |-> <<>>]

\* extract(dest, options), up to the first command that writes: what it does next
ExtractEntry(dest, options) ==
    IF VersionMissing(options.version)
      THEN [pc |-> "thrown", at |-> "extract", val |-> <<"options.version is required">>]
      ELSE LET destPath == DestPath(dest, options.version) IN
           IF existsSync(MarkerFile(destPath))
             THEN [pc |-> "returned", at |-> "cache", val |-> PythonDir(destPath)]
             ELSE DownloadEntry(options.version)

\* getPythonPath(options), up to the first command that writes: what it does next
GetPythonPathEntry(options) ==
    IF VersionMissing(options.version)
      THEN [pc |-> "thrown", at |-> "getPythonPath", val |-> <<"options.version is required">>]
      ELSE ExtractEntry(options.dest, [version |-> options.version])

\* A process calls one of the exported functions.  The checks at the head of the
\* function read the arguments, the platform and (one existsSync) the marker file;
\* they are one step, which ends at the throw, at the return of the cached path, or
\* in front of npm pack.
Call(p, op, v, d) ==
    /\ pc[p] \in {"idle", "returned", "thrown"}
    /\ TotalCalls < MaxCalls
    /\ op = "download" => d = NoDest
    /\ call' = [call EXCEPT ![p] = [op |-> op, version |-> v, dest |-> d]]
    /\ LET e == CASE op = "getPythonPath" -> GetPythonPathEntry([version |-> v, dest |-> d])
                  [] op = "extract" -> ExtractEntry(d, [version |-> v])
                  [] op = "download" -> DownloadEntry(v)
       IN /\ pc' = [pc EXCEPT ![p] = e.pc]
          /\ res' = [res EXCEPT ![p] =
                       [kind |-> CASE e.pc = "thrown" -> "throw"
                                   [] e.pc = "returned" -> "path"
                                   [] OTHER -> None,
                        val |-> e.val, at |-> e.at, hit |-> (e.pc = "returned"), packs |-> 0]]
    /\ prev' = [prev EXCEPT ![p] = [call |-> call[p], res |-> res[p]]]
    /\ tgz' = [tgz EXCEPT ![p] = NoTgz]
    /\ archive' = [archive EXCEPT ![p] = None]
    /\ idx' = [idx EXCEPT ![p] = 0]
    /\ ncalls' = [ncalls EXCEPT ![p] = @ + 1]
    /\ UNCHANGED <<host, disk, dirs, tmp, cmds>>
    /\ UNCHANGED <<rsVars, bdVars, trVars>>

\* npm pack run after the destination directory was created
NpmPackInDest(p) ==
    /\ pc[p] = "npmPack"
    /\ LET pkg == getPlatformPackageName(host)
           v == call[p].version
       IN /\ cmds' = cmds \cup {[cmd |-> "npm pack", pkg |-> pkg, version |-> v]}
          /\ dirs' = IF call[p].op = "download" THEN dirs
                     ELSE dirs \cup {DestPath(call[p].dest, v)}
          /\ \/ /\ pc' = [pc EXCEPT ![p] = "thrown"]
                /\ res' = [res EXCEPT ![p].kind = "throw", ![p].val = <<"Command failed">>,
                                      ![p].at = "npmPack", ![p].packs = @ + 1]
                /\ UNCHANGED tmp
             \/ /\ \E content \in {"good", "corrupt"} :
                     tmp' = [tmp EXCEPT ![TgzName(pkg, v)] = content]
                /\ pc' = [pc EXCEPT ![p] = "find"]
                /\ res' = [res EXCEPT ![p].packs = @ + 1]
    /\ UNCHANGED <<host, call, disk, tgz, archive, idx, prev, ncalls>>
    /\ UNCHANGED <<rsVars, bdVars, trVars>>

\* execSync(`npm pack ${packageName}@${version}`, {cwd: os.tmpdir()})
NpmPack(p) ==
    /\ pc[p] = "npmPack"
    /\ LET pkg == getPlatformPackageName(host)
           v == call[p].version
       IN /\ cmds' = cmds \cup {[cmd |-> "npm pack", pkg |-> pkg, version |-> v]}
          /\ \/ /\ pc' = [pc EXCEPT ![p] = "thrown"]
                /\ res' = [res EXCEPT ![p].kind = "throw", ![p].val = <<"Command failed">>,
                                      ![p].at = "npmPack", ![p].packs = @ + 1]
                /\ UNCHANGED tmp
             \/ /\ \E content \in {"good", "corrupt"} :
                     tmp' = [tmp EXCEPT ![TgzName(pkg, v)] = content]
                /\ pc' = [pc EXCEPT ![p] = "find"]
                /\ res' = [res EXCEPT ![p].packs = @ + 1]
    /\ UNCHANGED <<host, call, disk, dirs, tgz, archive, idx, prev, ncalls>>
    /\ UNCHANGED <<rsVars, bdVars, trVars>>


\* const files = fs.readdirSync(cwd); files.find(...): the order of a directory
\* listing is the file system's, so any matching file can be the first.
Find(p) ==
    /\ pc[p] = "find"
    /\ LET files == {f \in DOMAIN tmp : tmp[f] # Absent}
           matching == {f \in files : IsTgz(f)}
       IN IF matching = {}
            THEN Threw(p, "find", "Failed to find downloaded package") /\ UNCHANGED tgz
            ELSE /\ \E f \in matching : tgz' = [tgz EXCEPT ![p] = f]
                 /\ pc' = [pc EXCEPT ![p] = "read"]
                 /\ UNCHANGED res
    /\ UNCHANGED <<host, call, disk, dirs, tmp, archive, idx, prev, ncalls, cmds>>
    /\ UNCHANGED <<rsVars, bdVars, trVars>>

\* fs.readFileSync(tgzFile); gunzipSync(tgzData)
Read(p) ==
    /\ pc[p] = "read"
    /\ IF tmp[tgz[p]] = Absent
         THEN Threw(p, "readFile", "ENOENT") /\ UNCHANGED archive
         ELSE IF tmp[tgz[p]] = "corrupt"
                THEN Threw(p, "gunzip", "incorrect header check") /\ UNCHANGED archive
                ELSE /\ archive' = [archive EXCEPT ![p] = tgz[p].version]
                     /\ pc' = [pc EXCEPT ![p] = "rm"]
                     /\ UNCHANGED res
    /\ UNCHANGED <<host, call, disk, dirs, tmp, tgz, idx, prev, ncalls, cmds>>
    /\ UNCHANGED <<rsVars, bdVars, trVars>>

\* fs.rmSync(tgzFile); return new Archive(tarData)
Rm(p) ==
    /\ pc[p] = "rm"
    /\ IF tmp[tgz[p]] = Absent
         THEN Threw(p, "rm", "ENOENT") /\ UNCHANGED tmp
         ELSE /\ tmp' = [tmp EXCEPT ![tgz[p]] = Absent]
              /\ IF call[p].op = "download"
                   THEN /\ pc' = [pc EXCEPT ![p] = "returned"]
                        /\ res' = [res EXCEPT ![p].kind = "archive", ![p].val = <<archive[p]>>]
                   ELSE pc' = [pc EXCEPT ![p] = "mkdir"] /\ UNCHANGED res
    /\ UNCHANGED <<host, call, disk, dirs, tgz, archive, idx, prev, ncalls, cmds>>
    /\ UNCHANGED <<rsVars, bdVars, trVars>>

\* Mkdir with the marker written first instead of last
MkdirMarkerFirst(p) ==
    /\ pc[p] = "mkdir"
    /\ LET destPath == DestPath(call[p].dest, call[p].version) IN
       /\ dirs' = dirs \cup {destPath}
       /\ disk' = [disk EXCEPT ![MarkerFile(destPath)] = [src |-> archive[p], mode |-> 420]]
    /\ pc' = [pc EXCEPT ![p] = "unpack"]
    /\ UNCHANGED <<host, call, tmp, tgz, archive, idx, res, prev, ncalls, cmds>>
    /\ UNCHANGED <<rsVars, bdVars, trVars>>

\* fs.mkdirSync(destPath, { recursive: true })
Mkdir(p) ==
    /\ pc[p] = "mkdir"
    /\ \/ Threw(p, "mkdir", "EACCES") /\ UNCHANGED dirs
       \/ /\ dirs' = dirs \cup {DestPath(call[p].dest, call[p].version)}
          /\ pc' = [pc EXCEPT ![p] = "unpack"]
          /\ UNCHANGED res
    /\ UNCHANGED <<host, call, disk, tmp, tgz, archive, idx, prev, ncalls, cmds>>
    /\ UNCHANGED <<rsVars, bdVars, trVars>>

\* archive.unpack(destPath): the entries are written one after the other, each at
\* destPath/<entry path>; the call can fail at any entry.
Unpack(p) ==
    /\ pc[p] = "unpack"
    /\ LET destPath == DestPath(call[p].dest, call[p].version) IN
       \/ Threw(p, "unpack", "unpack failed") /\ UNCHANGED <<disk, idx>>
       \/ /\ idx[p] < Len(ArchiveEntries)
          /\ LET e == ArchiveEntries[idx[p] + 1] IN
             disk' = [disk EXCEPT ![destPath \o e.path] = [src |-> archive[p], mode |-> e.mode]]
          /\ idx' = [idx EXCEPT ![p] = @ + 1]
          /\ pc' = [pc EXCEPT ![p] = IF idx[p] + 1 = Len(ArchiveEntries)
                                       THEN "fixPermissions" ELSE "unpack"]
          /\ UNCHANGED res
    /\ UNCHANGED <<host, call, dirs, tmp, tgz, archive, prev, ncalls, cmds>>
    /\ UNCHANGED <<rsVars, bdVars, trVars>>

\* The regular files below dir
FilesUnder(dir) ==
    {f \in DOMAIN disk : /\ Len(f) > Len(dir)
                         /\ SubSeq(f, 1, Len(dir)) = dir
                         /\ disk[f] # NoFile}

\* fixPermissions(path.join(pythonDir, 'bin')); return pythonDir.
\* chmodSync can fail on any file, which is ignored; readdirSync can throw.
FixPermissions(p) ==
    /\ pc[p] = "fixPermissions"
    /\ LET destPath == DestPath(call[p].dest, call[p].version)
           dir == PythonDir(destPath) \o <<"bin">>
           files == FilesUnder(dir)
       IN \/ /\ files # {}
             /\ Threw(p, "fixPermissions", "EACCES")
             /\ UNCHANGED disk
          \/ /\ \E failed \in SUBSET files :
                  disk' = [f \in DOMAIN disk |->
                             IF f \in files \ failed
                               THEN [disk[f] EXCEPT !.mode = Mode755] ELSE disk[f]]
             /\ pc' = [pc EXCEPT ![p] = "returned"]
             /\ res' = [res EXCEPT ![p].kind = "path", ![p].val = PythonDir(destPath)]
    /\ UNCHANGED <<host, call, dirs, tmp, tgz, archive, idx, prev, ncalls, cmds>>
    /\ UNCHANGED <<rsVars, bdVars, trVars>>

RtOps == {"getPythonPath", "extract", "download"}

\* The steps of process p
RtStep(p) ==
    \/ \E op \in RtOps, v \in VersionArgs, d \in DestArgs : Call(p, op, v, d)
    \/ NpmPack(p)
    \/ Find(p)
    \/ Read(p)
    \/ Rm(p)
    \/ Mkdir(p)
    \/ Unpack(p)
    \/ FixPermissions(p)

\* One process making its calls one after the other
RtNext == RtStep("p1")

\* Two processes sharing os.tmpdir() and the destination directories
RtNextConcurrent == \E p \in Procs : RtStep(p)

\* The hosts the runtime is run on
RtHosts == {<<"linux", "x64">>, <<"darwin", "arm64">>}

\* proj is a directory of the caller's: it may hold a package.json of its own.
\* leftovers: whether os.tmpdir() may hold the tarball an earlier run left.
RtInit(leftovers) ==
    /\ host \in RtHosts
    /\ pc = [p \in Procs |-> "idle"]
    /\ call = [p \in Procs |-> NoCall]
    /\ \E own \in BOOLEAN :
         disk = [f \in Paths |->
                   IF own /\ f = <<"proj", "package.json">>
                     THEN [src |-> "caller", mode |-> 420] ELSE NoFile]
    /\ dirs = {<<"proj">>}
    /\ \E left \in leftovers :
         tmp = [f \in TmpNames |->
                  IF f = OtherTmpFile \/ (left /\ f = LeftoverTgz) THEN "good" ELSE Absent]
    /\ tgz = [p \in Procs |-> NoTgz]
    /\ archive = [p \in Procs |-> None]
    /\ idx = [p \in Procs |-> 0]
    /\ res = [p \in Procs |-> NoResult]
    /\ prev = [p \in Procs |-> [call |-> NoCall, res |-> NoResult]]
    /\ ncalls = [p \in Procs |-> 0]
    /\ cmds = {}

RsIdle ==
    /\ nm = <<>>
    /\ nox = {}
    /\ rret = NoReturn

BdIdle ==
    /\ bpc = "idle"
    /\ barg = [script |-> None, package |-> None, platform |-> <<>>, release |-> None]
    /\ benv = FALSE
    /\ btmp = <<>>
    /\ bdist = {}
    /\ bcmds = <<>>
    /\ bexit = None
    /\ bruns = 0
    /\ bloop = 0
    /\ blog = {}

PmIdle ==
    /\ ptree = <<>>
    /\ pro = {}
    /\ pinst = FALSE
    /\ pret = [op |-> None, kind |-> None, val |-> None]

SlIdle ==
    /\ stree = <<>>
    /\ sinit = <<>>
    /\ swork = <<>>
    /\ spc = "idle"
    /\ sdest = <<>>

\* The manifest of packages/patchelf as the repository holds it, and no manifest
\* written to dist/ yet
NoManifest == [version |-> None, listed |-> FALSE, optionalDependencies |-> <<>>]

MnIdle ==
    /\ msrc = [version |-> "0.18.0", listed |-> FALSE, optionalDependencies |-> <<>>]
    /\ mmain = NoManifest
    /\ mbuilt = <<>>

TrIdle == PmIdle /\ SlIdle /\ MnIdle

InitRuntime == RtInit({FALSE}) /\ RsIdle /\ BdIdle /\ TrIdle

InitConcurrent == RtInit(BOOLEAN) /\ RsIdle /\ BdIdle /\ TrIdle

SpecRuntime == InitRuntime /\ [][RtNext]_vars

SpecConcurrent == InitConcurrent /\ [][RtNextConcurrent]_vars


-----------------------------------------------------------------------------
(* @xspect-build/patchelf, lib/index.js: findBinaryPath, getPatchelfPath.  *)

patchelfPlatformPackageMap ==
    (<<"darwin", "arm64">> :> <<"@xspect-build", "patchelf", "darwin", "arm64">>) @@
    (<<"darwin", "x64">> :> <<"@xspect-build", "patchelf", "darwin", "x64">>) @@
    (<<"linux", "arm64">> :> <<"@xspect-build", "patchelf", "linux", "arm64">>) @@
    (<<"linux", "arm">> :> <<"@xspect-build", "patchelf", "linux", "arm">>) @@
    (<<"linux", "x64">> :> <<"@xspect-build", "patchelf", "linux", "x64">>)

\* platformPackageMap[platformKey]
patchelfPackageName(key) ==
    IF key \in DOMAIN patchelfPlatformPackageMap THEN patchelfPlatformPackageMap[key]
    ELSE Null

\* The three probed locations, relative to __dirname, in the order of the array
possiblePaths(packageName) ==
    << <<"..", "node_modules">> \o packageName \o <<"bin", "patchelf">>,
       <<"..", "..">> \o packageName \o <<"bin", "patchelf">>,
       <<"..", "..", ".pnpm", "node_modules">> \o packageName \o <<"bin", "patchelf">> >>

\* What require.resolve(`${packageName}/package.json`) finds when node's own lookup
\* finds the package, and the binary beside it
resolvedPackageJson(packageName) == <<"require.resolve">> \o packageName \o <<"package.json">>
resolvedBinPath(packageName) == <<"require.resolve">> \o packageName \o <<"bin", "patchelf">>

\* fs.existsSync on the installed files: true of a file and of a directory
nmExists(path) == path \in DOMAIN nm /\ nm[path] # Absent

\* The first element of a sequence of paths that exists, or Null
FirstExisting(paths) ==
    IF \E i \in 1..Len(paths) : nmExists(paths[i])
      THEN paths[CHOOSE i \in 1..Len(paths) :
                    nmExists(paths[i]) /\ \A j \in 1..(i - 1) : ~nmExists(paths[j])]
      ELSE Null

\* findBinaryPath(): a path, or Null
findBinaryPath ==
    LET packageName == patchelfPackageName(host) IN
    IF packageName = Null THEN Null
    ELSE IF FirstExisting(possiblePaths(packageName)) # Null
           THEN FirstExisting(possiblePaths(packageName))
           ELSE IF /\ nmExists(resolvedPackageJson(packageName))
                   /\ nmExists(resolvedBinPath(packageName))
                  THEN resolvedBinPath(packageName)
                  ELSE Null

\* getPatchelfPath(): the path, or the error thrown
getPatchelfPath ==
    IF findBinaryPath = Null
      THEN [kind |-> "throw", val |-> <<"patchelf binary not found for platform", host,
                      "platform is not supported or the optional dependency failed to install">>]
      ELSE [kind |-> "return", val |-> findBinaryPath]

\* isPatchelfAvailable() without the accessSync test
isPatchelfAvailableExists ==
    IF getPatchelfPath.kind = "throw" THEN "false" ELSE "true"

\* isPatchelfAvailable(): try { getPatchelfPath(); accessSync(path, X_OK); return true }
\* catch { return false }
isPatchelfAvailable ==
    IF getPatchelfPath.kind = "throw" THEN "false"
    ELSE IF getPatchelfPath.val \in nox THEN "false" ELSE "true"

\* path.dirname
dirname(path) == SubSeq(path, 1, Len(path) - 1)

\* getBinDir() with the lookup's result used unchecked
getBinDirUnchecked ==
    IF findBinaryPath = Null
      THEN [kind |-> "throw", val |-> <<"TypeError", host, "path argument must be of type string">>]
      ELSE [kind |-> "return", val |-> dirname(findBinaryPath)]

\* getBinDir(): path.dirname(getPatchelfPath())
getBinDir ==
    IF getPatchelfPath.kind = "throw" THEN getPatchelfPath
    ELSE [kind |-> "return", val |-> dirname(getPatchelfPath.val)]

\* A call of one of the lookups on this host
RsOps ==
    {"getPlatformPackageName", "download", "patchelfPackageName", "findBinaryPath",
     "getPatchelfPath", "isPatchelfAvailable", "getBinDir"}

RsCall(op) ==
    /\ rret' = CASE op = "getPlatformPackageName" ->
                      [op |-> op, kind |-> "return", val |-> <<getPlatformPackageName(host)>>]
                 [] op = "download" ->
                      LET e == DownloadEntry("python3.9.13") IN
                      [op |-> op, kind |-> IF e.pc = "thrown" THEN "throw" ELSE "npmPack",
                       val |-> e.val]
                 [] op = "patchelfPackageName" ->
                      [op |-> op, kind |-> "return", val |-> <<patchelfPackageName(host)>>]
                 [] op = "findBinaryPath" ->
                      [op |-> op, kind |-> "return", val |-> <<findBinaryPath>>]
                 [] op = "getPatchelfPath" ->
                      [op |-> op, kind |-> getPatchelfPath.kind, val |-> <<getPatchelfPath.val>>]
                 [] op = "isPatchelfAvailable" ->
                      [op |-> op, kind |-> "return", val |-> <<isPatchelfAvailable>>]
                 [] op = "getBinDir" ->
                      [op |-> op, kind |-> getBinDir.kind, val |-> <<getBinDir.val>>]
    /\ UNCHANGED <<host, nm, nox>>
    /\ UNCHANGED <<pc, call, disk, dirs, tmp, tgz, archive, idx, res, prev, ncalls, cmds>>
    /\ UNCHANGED <<bdVars, trVars>>

RsNext == \E op \in RsOps : RsCall(op)

\* What can be installed at a probed location: nothing, the binary, or a directory
NmKinds == {Absent, "file", "dir"}

\* The files the resolver can see for package name pkg
NmPaths(pkg) ==
    {possiblePaths(pkg)[i] : i \in 1..3} \cup {resolvedPackageJson(pkg), resolvedBinPath(pkg)}

RsInit ==
    /\ host \in PlatformKeys
    /\ IF patchelfPackageName(host) = Null
         THEN nm = <<>> /\ nox = {}
         ELSE LET pkg == patchelfPackageName(host) IN
              /\ nm \in [NmPaths(pkg) -> NmKinds]
              /\ nm[resolvedPackageJson(pkg)] # "dir"
              /\ nm[resolvedPackageJson(pkg)] = Absent => nm[resolvedBinPath(pkg)] = Absent
              /\ nox \in SUBSET {f \in NmPaths(pkg) \ {resolvedPackageJson(pkg)} :
                                    nm[f] # Absent}
    /\ rret = NoReturn

RtIdle ==
    /\ pc = [p \in Procs |-> "idle"]
    /\ call = [p \in Procs |-> NoCall]
    /\ disk = [f \in Paths |-> NoFile]
    /\ dirs = {}
    /\ tmp = [f \in TmpNames |-> Absent]
    /\ tgz = [p \in Procs |-> NoTgz]
    /\ archive = [p \in Procs |-> None]
    /\ idx = [p \in Procs |-> 0]
    /\ res = [p \in Procs |-> NoResult]
    /\ prev = [p \in Procs |-> [call |-> NoCall, res |-> NoResult]]
    /\ ncalls = [p \in Procs |-> 0]
    /\ cmds = {}

InitResolver == RsInit /\ RtIdle /\ BdIdle /\ TrIdle

SpecResolver == InitResolver /\ [][RsNext]_vars

-----------------------------------------------------------------------------
(* scripts/build-python.js (buildPythonPackage) and scripts/build-platform.js *)
(* (buildPlatformPackage).  A platform argument is the sequence of its parts  *)
(* between dashes: "linux-x64" is <<"linux", "x64">>.                         *)

\* Number of script runs, one after the other in the same checkout
MaxBuilds == 2

PYTHON_VERSION == "3.9.13"
BUILD_TYPE == "install-only"
BUILD_TYPE_FILE == "install_only"
BUILD_DATE == "20220528"
MIRROR_BASE == "https://registry.npmmirror.com/-/binary/python-build-standalone"
GITHUB_BASE == "https://github.com/astral-sh/python-build-standalone/releases/download"

PLATFORM_MAP ==
    (<<"linux", "x64">> :> "x86_64-unknown-linux-gnu") @@
    (<<"linux", "arm64">> :> "aarch64-unknown-linux-gnu")

\* PACKAGES of build-platform.js
PACKAGES ==
    [patchelf |-> [xpackName |-> "@xpack-dev-tools/patchelf",
                   xpackVersion |-> "0.18.0-1.1",
                   binaries |-> <<"patchelf">>]]

\* The platforms of a package that the build scripts list
BuildPlatforms ==
    {<<"darwin", "arm64">>, <<"darwin", "x64">>, <<"linux", "arm64">>, <<"linux", "arm">>,
     <<"linux", "x64">>}

\* Arguments the scripts are run with
PlatformArgs ==
    {<<"linux", "x64">>, <<"linux", "arm64">>, <<"darwin", "arm64">>, <<"win32", "x64">>,
     <<"linux">>}
PackageArgs == {"patchelf", "gdb"}
Releases == {"1", "2"}

\* const [os, cpu] = platform.split('-')
SplitOs(platform) == IF Len(platform) >= 1 THEN platform[1] ELSE ""
SplitCpu(platform) == IF Len(platform) >= 2 THEN platform[2] ELSE Undefined

\* `${PACKAGE_NAME}-${platform}`
PlatformPackageDir(package, platform) == <<package>> \o platform

\* cpython-${PYTHON_VERSION}+${BUILD_DATE}-${triple}-${BUILD_TYPE_FILE}.tar.gz
TarFileName(triple) == <<"cpython", PYTHON_VERSION, BUILD_DATE, triple, BUILD_TYPE_FILE, "tar.gz">>

BTmpNames ==
    {TarFileName(PLATFORM_MAP[k]) : k \in DOMAIN PLATFORM_MAP} \cup {<<"package.json">>, <<"xpacks">>}

\* fs.rmSync(tempDir, { recursive: true }), ensureDir(tempDir)
EmptyTmp == [f \in BTmpNames |-> Absent]

BEnd(how) ==
    /\ bpc' = "idle"
    /\ bexit' = how

\* A script is started: node scripts/<script> <arguments>
BuildStart(script, package, platform, release) ==
    /\ bpc = "idle"
    /\ bruns < MaxBuilds
    /\ bruns' = bruns + 1
    /\ barg' = [script |-> script, package |-> package, platform |-> platform,
                release |-> release]
    /\ bcmds' = <<>>
    /\ bexit' = None
    /\ bpc' = script
    /\ bloop' = 0
    /\ blog' = {}
    /\ UNCHANGED <<benv, btmp, bdist>>
    /\ UNCHANGED <<rtVars, rsVars, trVars>>

\* buildPythonPackage, up to the download
BuildPythonPackage ==
    /\ bpc = "build-python"
    /\ IF barg.platform \notin DOMAIN PLATFORM_MAP
         THEN BEnd("exit 1") /\ UNCHANGED <<btmp, bdist>>
         ELSE /\ btmp' = EmptyTmp
              /\ bdist' = {e \in bdist : e.dir # PlatformPackageDir("python", barg.platform)}
              /\ bpc' = "curl"
              /\ UNCHANGED bexit
    /\ blog' = IF barg.platform \notin DOMAIN PLATFORM_MAP
                 THEN blog \cup {"Unsupported platform"} ELSE blog
    /\ UNCHANGED <<barg, benv, bcmds, bruns, bloop>>
    /\ UNCHANGED <<rtVars, rsVars, trVars>>

\* The download source being the mirror whatever the environment holds
downloadBaseMirror == MIRROR_BASE

\* if (process.env.GITHUB_TOKEN) ... GITHUB_BASE ... else ... MIRROR_BASE
downloadBase == IF benv THEN GITHUB_BASE ELSE MIRROR_BASE

\* run(`curl -L ... -o "${tarPath}" "${downloadUrl}"`).  curl is run without
\* --fail: on a transport error it exits non-zero (execSync throws) and may leave
\* part of the file; on an HTTP error status it exits 0 with the body of the error
\* response saved at tarPath.
Curl ==
    /\ bpc = "curl"
    /\ LET tarPath == TarFileName(PLATFORM_MAP[barg.platform])
           source == downloadBase
       IN /\ bcmds' = Append(bcmds, [cmd |-> "curl", from |-> source, auth |-> benv])
          /\ \/ /\ \E left \in {Absent, "partial"} : btmp' = [btmp EXCEPT ![tarPath] = left]
                /\ BEnd("throw")
             \/ /\ \E body \in {"tar.gz", "error body"} : btmp' = [btmp EXCEPT ![tarPath] = body]
                /\ bpc' = "tar"
                /\ UNCHANGED bexit
    /\ UNCHANGED <<barg, benv, bdist, bruns>>
    /\ UNCHANGED <<bloop, blog>>
    /\ UNCHANGED <<rtVars, rsVars, trVars>>

\* ensureDir(pythonDir); run(`tar -xzf "${tarPath}" -C "${pythonDir}" --strip-components=1`)
Tar ==
    /\ bpc = "tar"
    /\ LET tarPath == TarFileName(PLATFORM_MAP[barg.platform])
           dir == PlatformPackageDir("python", barg.platform)
       IN /\ bcmds' = Append(bcmds, [cmd |-> "tar", from |-> btmp[tarPath], auth |-> FALSE])
          /\ IF btmp[tarPath] = "tar.gz"
               THEN /\ bdist' = bdist \cup {[dir |-> dir, file |-> <<"python", "bin", "python3">>,
                                             data |-> <<PYTHON_VERSION>>]}
                    /\ bpc' = "package"
                    /\ UNCHANGED bexit
               ELSE BEnd("throw") /\ UNCHANGED bdist
    /\ UNCHANGED <<barg, benv, btmp, bruns>>
    /\ UNCHANGED <<bloop, blog>>
    /\ UNCHANGED <<rtVars, rsVars, trVars>>

\* The version spelled with the build type of the archive file name
PythonPackageVersionFile(release) == <<PYTHON_VERSION, "-", BUILD_TYPE_FILE, ".", release>>

\* `${PYTHON_VERSION}-${BUILD_TYPE}.${release}`
PythonPackageVersion(release) == <<PYTHON_VERSION, "-", BUILD_TYPE, ".", release>>

\* buildPythonPackage from replaceSymlinks on: package.json is written and the temp
\* directory removed.
PythonPackageJson ==
    /\ bpc = "package"
    /\ LET dir == PlatformPackageDir("python", barg.platform) IN
       bdist' = bdist \cup {[dir |-> dir, file |-> <<"package.json">>,
                             data |-> PythonPackageVersion(barg.release)]}
    /\ btmp' = EmptyTmp
    /\ BEnd("ok")
    /\ UNCHANGED <<barg, benv, bcmds, bruns>>
    /\ UNCHANGED <<bloop, blog>>
    /\ UNCHANGED <<rtVars, rsVars, trVars>>

\* buildPlatformPackage, up to `npx xpm init`
BuildPlatformPackage ==
    /\ bpc = "build-platform"
    /\ IF barg.package \notin DOMAIN PACKAGES
         THEN BEnd("exit 1") /\ UNCHANGED <<btmp, bdist>>
         ELSE IF SplitOs(barg.platform) = "" \/ SplitCpu(barg.platform) = Undefined
                THEN BEnd("exit 1") /\ UNCHANGED <<btmp, bdist>>
                ELSE /\ btmp' = [EmptyTmp EXCEPT ![<<"package.json">>] = "temp-build"]
                     /\ bdist' = {e \in bdist :
                                    e.dir # PlatformPackageDir(barg.package, barg.platform)}
                     /\ bpc' = "xpm init"
                     /\ UNCHANGED bexit
    /\ blog' = IF barg.package \notin DOMAIN PACKAGES THEN blog \cup {"Unknown package"}
               ELSE IF SplitOs(barg.platform) = "" \/ SplitCpu(barg.platform) = Undefined
                      THEN blog \cup {"Invalid platform format"} ELSE blog
    /\ UNCHANGED <<barg, benv, bcmds, bruns, bloop>>
    /\ UNCHANGED <<rtVars, rsVars, trVars>>

\* run(`npx xpm init`, { cwd: tempDir })
XpmInit ==
    /\ bpc = "xpm init"
    /\ bcmds' = Append(bcmds, [cmd |-> "npx xpm init", from |-> None, auth |-> FALSE])
    /\ \/ BEnd("throw")
       \/ bpc' = "xpm install" /\ UNCHANGED bexit
    /\ UNCHANGED <<barg, benv, btmp, bdist, bruns>>
    /\ UNCHANGED <<bloop, blog>>
    /\ UNCHANGED <<rtVars, rsVars, trVars>>

\* run(`npx xpm install ${config.xpackName}@${config.xpackVersion} --verbose`)
\* What lands in xpacks/ is the upstream's: the binary may be missing from it.
XpmInstall ==
    /\ bpc = "xpm install"
    /\ bcmds' = Append(bcmds, [cmd |-> "npx xpm install",
                               from |-> PACKAGES[barg.package].xpackName, auth |-> FALSE])
    /\ \/ BEnd("throw") /\ UNCHANGED btmp
       \/ /\ \E got \in {"bin/patchelf", "no binary", "no bin directory"} :
               btmp' = [btmp EXCEPT ![<<"xpacks">>] = got]
          /\ bpc' = "copy"
          /\ UNCHANGED bexit
    /\ UNCHANGED <<barg, benv, bdist, bruns>>
    /\ UNCHANGED <<bloop, blog>>
    /\ UNCHANGED <<rtVars, rsVars, trVars>>

\* The version of packages/<packageName>/package.json
MainPackageVersion == msrc.version

\* buildPlatformPackage from the search of the binary directory on
PlatformPackageJson ==
    /\ bpc = "copy"
    /\ LET dir == PlatformPackageDir(barg.package, barg.platform) IN
       IF btmp[<<"xpacks">>] # "bin/patchelf"
         THEN BEnd("throw") /\ UNCHANGED <<btmp, bdist>>
         ELSE /\ bdist' = bdist \cup
                    {[dir |-> dir, file |-> <<"bin", "patchelf">>, data |-> <<"binary">>],
                     [dir |-> dir, file |-> <<"package.json">>, data |-> <<MainPackageVersion>>],
                     [dir |-> dir, file |-> <<".version">>, data |-> <<MainPackageVersion>>]}
              /\ btmp' = EmptyTmp
              /\ BEnd("ok")
    /\ UNCHANGED <<barg, benv, bcmds, bruns>>
    /\ UNCHANGED <<bloop, blog>>
    /\ UNCHANGED <<rtVars, rsVars, trVars>>

BdNext ==
    \/ \E platform \in PlatformArgs, release \in Releases :
          BuildStart("build-python", "python", platform, release)
    \/ \E package \in PackageArgs, platform \in PlatformArgs :
          BuildStart("build-platform", package, platform, None)
    \/ BuildPythonPackage
    \/ Curl
    \/ Tar
    \/ PythonPackageJson
    \/ BuildPlatformPackage
    \/ XpmInit
    \/ XpmInstall
    \/ PlatformPackageJson

BdInit ==
    /\ bpc = "idle"
    /\ barg = [script |-> None, package |-> None, platform |-> <<>>, release |-> None]
    /\ benv \in BOOLEAN
    /\ btmp = EmptyTmp
    /\ bdist = {}
    /\ bcmds = <<>>
    /\ bexit = None
    /\ bruns = 0
    /\ bloop = 0
    /\ blog = {}

InitBuild == BdInit /\ host = <<"linux", "x64">> /\ RtIdle /\ RsIdle /\ TrIdle

SpecBuild == InitBuild /\ [][BdNext]_vars

\* ---- scripts/build.js: every platform package of one package, then the main one ----

\* PACKAGES[packageName].platforms of build.js, in the order the loop visits them
BuildPackagePlatforms ==
    << <<"darwin", "arm64">>, <<"darwin", "x64">>, <<"linux", "arm64">>, <<"linux", "arm">>,
       <<"linux", "x64">> >>

\* --version <version> as build.js is given it; None when the option is absent
BuildVersionArgs == {None, "0.18.0-1.1", "0.18.0"}

\* What `npm view ${config.xpackName} version` prints
LatestXpackVersion == "0.18.0-1.1"

\* xpackVersion.split('-')[0]
baseVersion(xpackVersion) ==
    CASE xpackVersion = "0.18.0-1.1" -> "0.18.0"
      [] xpackVersion = "0.18.0" -> "0.18.0"
      [] OTHER -> xpackVersion

\* buildPackage up to the loop: the package is looked up, dist/ and .tmp/ are emptied,
\* and the xpack version is asked of the registry when none was given. barg.release
\* holds xpackVersion from here on.
BuildPackage ==
    /\ bpc = "build"
    /\ IF barg.package \notin DOMAIN PACKAGES
         THEN /\ BEnd("exit 1")
              /\ blog' = blog \cup {"Unknown package"}
              /\ UNCHANGED <<barg, btmp, bdist, bcmds, bloop>>
         ELSE /\ btmp' = EmptyTmp
              /\ bdist' = {}
              /\ UNCHANGED blog
              /\ IF barg.release = None
                   THEN /\ bcmds' = Append(bcmds, [cmd |-> "npm view",
                                        from |-> PACKAGES[barg.package].xpackName,
                                        auth |-> FALSE])
                        /\ \/ BEnd("throw") /\ UNCHANGED <<barg, bloop>>
                           \/ /\ barg' = [barg EXCEPT !.release = LatestXpackVersion]
                              /\ bloop' = 1
                              /\ bpc' = "build loop"
                              /\ UNCHANGED bexit
                   ELSE /\ bloop' = 1
                        /\ bpc' = "build loop"
                        /\ UNCHANGED <<barg, bcmds, bexit>>
    /\ UNCHANGED <<benv, bruns>>
    /\ UNCHANGED <<rtVars, rsVars, trVars>>

\* name: `${SCOPE}/${platformPackageName}` of the package.json written to the directory
\* dist/<platformPackageName>
platformPackageJsonName(dir) == <<SCOPE>> \o dir

\* What one pass of the loop meets after `xpm install`
InstallOutcomes == {"install failed", "no bin directory", "no binary", "bin/patchelf"}

\* What one pass of the loop writes to console.error
loopError(got) ==
    CASE got = "install failed" -> {"Failed to install xpack"}
      [] got = "no bin directory" -> {"Binary directory not found"}
      [] got = "no binary" -> {"Binary not found"}
      [] OTHER -> {}

\* What one pass of the loop leaves in dist/<packageName>-<platform>/
loopFiles(dir, got, version) ==
    CASE got \in {"install failed", "no bin directory"} -> {}
      [] got = "no binary" ->
            {[dir |-> dir, file |-> <<"package.json">>, data |-> <<version>>]}
      [] OTHER ->
            {[dir |-> dir, file |-> <<"bin", "patchelf">>, data |-> <<"binary">>],
             [dir |-> dir, file |-> <<"package.json">>, data |-> <<version>>]}

\* One pass of `for (const { platform, os, cpu } of config.platforms)`
BuildPackagePlatform ==
    /\ bpc = "build loop"
    /\ bloop <= Len(BuildPackagePlatforms)
    /\ bcmds' = Append(bcmds, [cmd |-> "xpm install",
                               from |-> PACKAGES[barg.package].xpackName, auth |-> FALSE])
    /\ \E got \in InstallOutcomes :
          /\ blog' = blog \cup loopError(got)
          /\ bdist' = bdist \cup
                loopFiles(PlatformPackageDir(barg.package, BuildPackagePlatforms[bloop]),
                          got, baseVersion(barg.release))
    /\ bloop' = bloop + 1
    /\ UNCHANGED <<bpc, barg, benv, btmp, bexit, bruns>>
    /\ UNCHANGED <<rtVars, rsVars, trVars>>

\* buildPackage after the loop: the main package is copied with its version set, .tmp/
\* is removed and "Build complete!" is printed.
BuildPackageMain ==
    /\ bpc = "build loop"
    /\ bloop > Len(BuildPackagePlatforms)
    /\ bdist' = bdist \cup {[dir |-> <<barg.package>>, file |-> <<"package.json">>,
                             data |-> <<baseVersion(barg.release)>>]}
    /\ btmp' = EmptyTmp
    /\ bloop' = 0
    /\ BEnd("ok")
    /\ UNCHANGED <<barg, benv, bcmds, bruns, blog>>
    /\ UNCHANGED <<rtVars, rsVars, trVars>>

BuildAllNext ==
    \/ \E package \in PackageArgs, version \in BuildVersionArgs :
          BuildStart("build", package, <<>>, version)
    \/ BuildPackage
    \/ BuildPackagePlatform
    \/ BuildPackageMain

SpecBuildAll == InitBuild /\ [][BuildAllNext]_vars

\* ---- scripts/prepare-main-package.js: the main package, after the platform ones ----

\* PLATFORMS, in the order of the list
PLATFORMS ==
    << <<"darwin", "arm64">>, <<"darwin", "x64">>, <<"linux", "arm64">>, <<"linux", "arm">>,
       <<"linux", "x64">> >>

\* `${SCOPE}/${packageName}-${platform}`
depName(packageName, platform) == <<SCOPE>> \o PlatformPackageDir(packageName, platform)

\* The packages that have a directory below packages/
SourcePackages == {"patchelf"}

\* The same loop without `packageJson.optionalDependencies = {}` before it
injectOptionalDependenciesOver(packageJson, packageName, version) ==
    [n \in DOMAIN packageJson.optionalDependencies
           \cup {depName(packageName, PLATFORMS[i]) : i \in 1..Len(PLATFORMS)} |-> version]

\* packageJson.optionalDependencies = {};
\* for (const platform of PLATFORMS) { ...[`${SCOPE}/${packageName}-${platform}`] = baseVersion }
injectOptionalDependencies(packageJson, packageName, version) ==
    [n \in {depName(packageName, PLATFORMS[i]) : i \in 1..Len(PLATFORMS)} |-> version]

\* The main package directory of dist/ with its package.json at the version given
mainPackageFiles(packageName, version) ==
    {[dir |-> <<packageName>>, file |-> <<"package.json">>, data |-> <<version>>]}

\* prepareMainPackage(packageName), the version read from the source package.json
PrepareMainPackage ==
    /\ bpc = "prepare-main"
    /\ IF barg.package \notin SourcePackages
         THEN BEnd("throw") /\ UNCHANGED <<bdist, mmain>>
         ELSE /\ mmain' = [version |-> msrc.version,
                           listed |-> TRUE,
                           optionalDependencies |->
                               injectOptionalDependencies(msrc, barg.package, msrc.version)]
              /\ bdist' = {e \in bdist : e.dir # <<barg.package>>}
                              \cup mainPackageFiles(barg.package, msrc.version)
              /\ BEnd("ok")
    /\ UNCHANGED <<barg, benv, btmp, bcmds, bruns, bloop, blog>>
    /\ UNCHANGED <<rtVars, rsVars, pmVars, slVars, msrc, mbuilt>>

\* What packages/patchelf/package.json can hold before the script runs
StaleVersion == "0.17.2"
SourceVersions == {"0.18.0", "0.18.1"}
SourceDependencies ==
    { [listed |-> FALSE, optionalDependencies |-> <<>>],
      [listed |-> TRUE,
       optionalDependencies |-> [n \in {depName("patchelf", PLATFORMS[i]) : i \in 1..Len(PLATFORMS)}
                                    |-> StaleVersion]],
      [listed |-> TRUE,
       optionalDependencies |-> [n \in {depName("patchelf", <<"linux", "x64">>),
                                        depName("patchelf", <<"win32", "x64">>)}
                                    |-> StaleVersion]] }

MnInit ==
    /\ \E v \in SourceVersions, d \in SourceDependencies :
          msrc = [version |-> v, listed |-> d.listed,
                  optionalDependencies |-> d.optionalDependencies]
    /\ mmain = NoManifest
    /\ mbuilt = <<>>

PrepareNext ==
    \/ \E package \in PackageArgs, platform \in PlatformArgs :
          BuildStart("build-platform", package, platform, None)
    \/ \E package \in PackageArgs : BuildStart("prepare-main", package, <<>>, None)
    \/ BuildPlatformPackage
    \/ XpmInit
    \/ XpmInstall
    \/ PlatformPackageJson
    \/ PrepareMainPackage

InitPrepare ==
    BdInit /\ MnInit /\ host = <<"linux", "x64">> /\ RtIdle /\ RsIdle /\ PmIdle /\ SlIdle

SpecPrepare == InitPrepare /\ [][PrepareNext]_vars

\* ---- build-platform.js and prepare-main-package.js with --version ----

\* buildPlatformPackage(packageName, platform, version), up to `xpm init`: the
\* arguments are checked, .tmp/ is emptied, the xpack version is asked of the registry
\* when none was given and the platform package directory is removed. barg.release
\* keeps the --version given; the local xpackVersion is kept in btmp, at the key of
\* .tmp/package.json, the file written next.
BuildPlatformVersioned ==
    /\ bpc = "build-platform-versioned"
    /\ IF barg.package \notin DOMAIN PACKAGES
         THEN /\ BEnd("exit 1")
              /\ blog' = blog \cup {"Unknown package"}
              /\ UNCHANGED <<btmp, bdist, bcmds>>
         ELSE IF SplitOs(barg.platform) = "" \/ SplitCpu(barg.platform) = Undefined
           THEN /\ BEnd("exit 1")
                /\ blog' = blog \cup {"Invalid platform format"}
                /\ UNCHANGED <<btmp, bdist, bcmds>>
           ELSE /\ UNCHANGED blog
                /\ IF barg.release = None
                     THEN /\ bcmds' = Append(bcmds, [cmd |-> "npm view",
                                          from |-> PACKAGES[barg.package].xpackName,
                                          auth |-> FALSE])
                          /\ \/ /\ BEnd("throw")
                                /\ btmp' = EmptyTmp
                                /\ UNCHANGED bdist
                             \/ /\ btmp' = [EmptyTmp EXCEPT
                                              ![<<"package.json">>] = LatestXpackVersion]
                                /\ bdist' = {e \in bdist : e.dir #
                                               PlatformPackageDir(barg.package, barg.platform)}
                                /\ bpc' = "xpm init versioned"
                                /\ UNCHANGED bexit
                     ELSE /\ btmp' = [EmptyTmp EXCEPT ![<<"package.json">>] = barg.release]
                          /\ bdist' = {e \in bdist : e.dir #
                                         PlatformPackageDir(barg.package, barg.platform)}
                          /\ bpc' = "xpm init versioned"
                          /\ UNCHANGED <<bcmds, bexit>>
    /\ UNCHANGED <<barg, benv, bruns, bloop>>
    /\ UNCHANGED <<rtVars, rsVars, trVars>>

\* run(`xpm init`, { cwd: tempDir })
XpmInitVersioned ==
    /\ bpc = "xpm init versioned"
    /\ bcmds' = Append(bcmds, [cmd |-> "xpm init", from |-> None, auth |-> FALSE])
    /\ \/ BEnd("throw")
       \/ bpc' = "xpm install versioned" /\ UNCHANGED bexit
    /\ UNCHANGED <<barg, benv, btmp, bdist, bruns, bloop, blog>>
    /\ UNCHANGED <<rtVars, rsVars, trVars>>

\* run(`xpm install ${config.xpackName}@${xpackVersion} --verbose`)
XpmInstallVersioned ==
    /\ bpc = "xpm install versioned"
    /\ bcmds' = Append(bcmds, [cmd |-> "xpm install",
                               from |-> PACKAGES[barg.package].xpackName, auth |-> FALSE])
    /\ \/ BEnd("throw") /\ UNCHANGED btmp
       \/ /\ \E got \in {"bin/patchelf", "no binary", "no bin directory"} :
               btmp' = [btmp EXCEPT ![<<"xpacks">>] = got]
          /\ bpc' = "copy versioned"
          /\ UNCHANGED bexit
    /\ UNCHANGED <<barg, benv, bdist, bruns, bloop, blog>>
    /\ UNCHANGED <<rtVars, rsVars, trVars>>

\* buildPlatformPackage from the search of the binary directory on: the binary is
\* copied, package.json and .version are written with baseVersion
PlatformPackageVersioned ==
    /\ bpc = "copy versioned"
    /\ LET dir == PlatformPackageDir(barg.package, barg.platform)
           version == baseVersion(btmp[<<"package.json">>])
       IN IF btmp[<<"xpacks">>] # "bin/patchelf"
            THEN BEnd("throw") /\ UNCHANGED <<btmp, bdist, mbuilt>>
            ELSE /\ bdist' = bdist \cup
                       {[dir |-> dir, file |-> <<"bin", "patchelf">>, data |-> <<"binary">>],
                        [dir |-> dir, file |-> <<"package.json">>, data |-> <<version>>],
                        [dir |-> dir, file |-> <<".version">>, data |-> <<version>>]}
                 /\ mbuilt' = [d \in DOMAIN mbuilt \cup {dir} |->
                                 IF d = dir THEN barg.release ELSE mbuilt[d]]
                 /\ btmp' = EmptyTmp
                 /\ BEnd("ok")
    /\ UNCHANGED <<barg, benv, bcmds, bruns, bloop, blog>>
    /\ UNCHANGED <<rtVars, rsVars, pmVars, slVars, msrc, mmain>>

\* The platforms of PLATFORMS, in order, whose dist directory holds a .version file
RECURSIVE versionFiles(_, _)
versionFiles(packageName, i) ==
    IF i > Len(PLATFORMS) THEN <<>>
    ELSE LET found == {e \in bdist : /\ e.dir = PlatformPackageDir(packageName, PLATFORMS[i])
                                     /\ e.file = <<".version">>}
         IN (IF found = {} THEN <<>> ELSE <<(CHOOSE e \in found : TRUE).data[1]>>)
               \o versionFiles(packageName, i + 1)

\* baseVersion of prepareMainPackage(packageName, version) before the registry is asked:
\* the --version given, else the content of the first .version file, else None
detectedVersion(packageName, version) ==
    IF version # None THEN version
    ELSE IF versionFiles(packageName, 1) # <<>> THEN versionFiles(packageName, 1)[1]
    ELSE None

\* for (const dep of Object.keys(packageJson.optionalDependencies)) { ...[dep] = baseVersion }
updateOptionalDependencies(packageJson, version) ==
    [n \in DOMAIN packageJson.optionalDependencies |-> version]

\* prepareMainPackage(packageName, version)
PrepareMainVersioned ==
    /\ bpc = "prepare-main-versioned"
    /\ LET found == detectedVersion(barg.package, barg.release) IN
       /\ bcmds' = IF found = None
                     THEN Append(bcmds, [cmd |-> "npm view",
                                         from |-> <<"@xpack-dev-tools", barg.package>>,
                                         auth |-> FALSE])
                     ELSE bcmds
       /\ \/ /\ found = None
             /\ BEnd("throw")
             /\ UNCHANGED <<bdist, mmain>>
          \/ LET version == IF found = None THEN baseVersion(LatestXpackVersion) ELSE found IN
             IF barg.package \notin SourcePackages
               THEN /\ BEnd("throw")
                    /\ bdist' = {e \in bdist : e.dir # <<barg.package>>}
                    /\ UNCHANGED mmain
               ELSE /\ mmain' = [version |-> version,
                                 listed |-> msrc.listed,
                                 optionalDependencies |->
                                     updateOptionalDependencies(msrc, version)]
                    /\ bdist' = {e \in bdist : e.dir # <<barg.package>>}
                                    \cup mainPackageFiles(barg.package, version)
                    /\ BEnd("ok")
    /\ UNCHANGED <<barg, benv, btmp, bruns, bloop, blog>>
    /\ UNCHANGED <<rtVars, rsVars, pmVars, slVars, msrc, mbuilt>>

\* The platforms the versioned scripts are run for
VersionedPlatformArgs == {<<"darwin", "arm64">>, <<"linux", "x64">>, <<"linux">>}

VersionedNext ==
    \/ \E package \in PackageArgs, platform \in VersionedPlatformArgs,
          version \in BuildVersionArgs :
          BuildStart("build-platform-versioned", package, platform, version)
    \/ \E package \in PackageArgs, version \in BuildVersionArgs :
          BuildStart("prepare-main-versioned", package, <<>>, version)
    \/ BuildPlatformVersioned
    \/ XpmInitVersioned
    \/ XpmInstallVersioned
    \/ PlatformPackageVersioned
    \/ PrepareMainVersioned

SpecVersioned == InitPrepare /\ [][VersionedNext]_vars

-----------------------------------------------------------------------------
(* The permission pass: fixPermissions of @xspect-build/python (lib/index.js, *)
(* called by extract) and of @xspect-build/patchelf (postinstall.js).  The    *)
(* state is the payload as it was unpacked or installed; paths are relative   *)
(* to the payload root (pythonDir for extract, packageDir for postinstall).   *)

PmPaths ==
    {<<"bin">>, <<"bin", "tool">>, <<"bin", "sub">>, <<"bin", "sub", "deep">>,
     <<"bin", "alias">>, <<"libexec">>, <<"libexec", "helper">>, <<"lib">>,
     <<"lib", "data">>}

\* What each path of the payload can be
PmKinds(f) ==
    CASE f = <<"bin">> -> {"dir", Absent}
      [] f = <<"bin", "tool">> -> {"file", Absent}
      [] f = <<"bin", "sub">> -> {"dir", "link", Absent}
      [] f = <<"bin", "sub", "deep">> -> {"file", Absent}
      [] f = <<"bin", "alias">> -> {"link", Absent}
      [] f = <<"libexec">> -> {"dir", Absent}
      [] f = <<"libexec", "helper">> -> {"file", Absent}
      [] f = <<"lib">> -> {"dir"}
      [] f = <<"lib", "data">> -> {"file"}

\* The mode an entry has after the unpack or the install: 0o644 for a file (the
\* execute bit is lost), 0o700 for a directory, 0o777 for a symbolic link
UnpackedMode(kind) ==
    CASE kind = "file" -> 420
      [] kind = "dir" -> 448
      [] kind = "link" -> 511
      [] OTHER -> 0

\* fs.existsSync(dir)
pmExists(f) == f \in DOMAIN ptree /\ ptree[f].kind # Absent

\* fs.readdirSync(dir, { withFileTypes: true })
pmReaddir(dir) ==
    {f \in DOMAIN ptree : /\ Len(f) = Len(dir) + 1
                          /\ SubSeq(f, 1, Len(dir)) = dir
                          /\ ptree[f].kind # Absent}

\* The files fixPermissions(dir) calls chmodSync on: it returns at once when dir
\* does not exist, recurses into entry.isDirectory() and takes entry.isFile(); a
\* symbolic link is neither.
RECURSIVE filesToChmod(_)
filesToChmod(dir) ==
    IF ~pmExists(dir) THEN {}
    ELSE UNION {IF ptree[e].kind = "dir" THEN filesToChmod(e)
                ELSE IF ptree[e].kind = "file" THEN {e} ELSE {} : e \in pmReaddir(dir)}

\* chmodSync outside a try block: the first failure ends the pass
tryChmodUncaught(files) ==
    [done |-> IF files \cap pro = {} THEN files ELSE {}, threw |-> files \cap pro # {}]

\* try { fs.chmodSync(fullPath, 0o755) } catch (e) { /* ignored */ }
tryChmod(files) == [done |-> files \ pro, threw |-> FALSE]

\* The payload after the files of `done` were given 0o755
Chmodded(done) ==
    [f \in DOMAIN ptree |-> IF f \in done THEN [ptree[f] EXCEPT !.mode = Mode755] ELSE ptree[f]]

\* extract, after archive.unpack(destPath):
\* fixPermissions(path.join(pythonDir, 'bin')); return pythonDir
ExtractFixPermissions ==
    /\ pret.op \in {None, "extract"}
    /\ LET r == tryChmod(filesToChmod(<<"bin">>)) IN
       /\ ptree' = Chmodded(r.done)
       /\ pret' = [op |-> "extract", kind |-> IF r.threw THEN "throw" ELSE "return",
                   val |-> IF r.threw THEN "EPERM" ELSE "pythonDir"]
    /\ UNCHANGED <<pro, pinst>>
    /\ UNCHANGED <<rtVars, rsVars, bdVars, slVars, mnVars>>

\* The table without the 32-bit ARM entry
postinstallPlatformPackageMapNoArm ==
    (<<"darwin", "arm64">> :> <<"@xspect-build", "patchelf", "darwin", "arm64">>) @@
    (<<"darwin", "x64">> :> <<"@xspect-build", "patchelf", "darwin", "x64">>) @@
    (<<"linux", "arm64">> :> <<"@xspect-build", "patchelf", "linux", "arm64">>) @@
    (<<"linux", "x64">> :> <<"@xspect-build", "patchelf", "linux", "x64">>)

\* postinstall.js platformPackageMap
postinstallPlatformPackageMap ==
    (<<"darwin", "arm64">> :> <<"@xspect-build", "patchelf", "darwin", "arm64">>) @@
    (<<"darwin", "x64">> :> <<"@xspect-build", "patchelf", "darwin", "x64">>) @@
    (<<"linux", "arm64">> :> <<"@xspect-build", "patchelf", "linux", "arm64">>) @@
    (<<"linux", "arm">> :> <<"@xspect-build", "patchelf", "linux", "arm">>) @@
    (<<"linux", "x64">> :> <<"@xspect-build", "patchelf", "linux", "x64">>)

\* postinstall.js findPackageDir(): the directory of the platform package, if the
\* platform is in the table and require.resolve finds the package
findPackageDir == host \in DOMAIN postinstallPlatformPackageMap /\ pinst

\* postinstall.js, the whole script
Postinstall ==
    /\ pret.op \in {None, "postinstall"}
    /\ IF findPackageDir
         THEN LET r1 == tryChmod(filesToChmod(<<"bin">>))
                  r2 == tryChmod(filesToChmod(<<"libexec">>))
              IN /\ ptree' = Chmodded(r1.done \cup (IF r1.threw THEN {} ELSE r2.done))
                 /\ pret' = [op |-> "postinstall",
                             kind |-> IF r1.threw \/ r2.threw THEN "throw" ELSE "return",
                             val |-> IF r1.threw \/ r2.threw THEN "EPERM"
                                     ELSE "Installation complete"]
         ELSE /\ pret' = [op |-> "postinstall", kind |-> "return",
                          val |-> "Platform package not found, skipping permission fix"]
              /\ UNCHANGED ptree
    /\ UNCHANGED <<pro, pinst>>
    /\ UNCHANGED <<rtVars, rsVars, bdVars, slVars, mnVars>>

PmNext == ExtractFixPermissions \/ Postinstall

\* A payload: every entry lies in a directory, with the modes of the unpack
PmInit ==
    /\ \E kinds \in [PmPaths -> {"file", "dir", "link", Absent}] :
         /\ \A f \in PmPaths : kinds[f] \in PmKinds(f)
         /\ \A f \in PmPaths :
              (Len(f) > 1 /\ kinds[f] # Absent) => kinds[SubSeq(f, 1, Len(f) - 1)] = "dir"
         /\ ptree = [f \in PmPaths |-> [kind |-> kinds[f], mode |-> UnpackedMode(kinds[f])]]
    /\ pro \in SUBSET {f \in PmPaths : ptree[f].kind = "file"}
    /\ pinst \in BOOLEAN
    /\ pret = [op |-> None, kind |-> None, val |-> None]

PmHosts == {<<"linux", "x64">>, <<"win32", "x64">>}

InitPermissions == PmInit /\ host \in PmHosts /\ RtIdle /\ RsIdle /\ BdIdle /\ SlIdle /\ MnIdle

SpecPermissions == InitPermissions /\ [][PmNext]_vars

-----------------------------------------------------------------------------
(* Symbolic links in the build scripts: replaceSymlinks of build-python.js   *)
(* and copyDir of build-platform.js.  Paths are relative to the directory    *)
(* the function is called on; a link target is kept as readlink returns it,  *)
(* a sequence of segments that starts with "/" when it is absolute.          *)

SlNone == [kind |-> Absent, content |-> "", mode |-> 0, target |-> <<>>]
SlFile(content, mode) == [kind |-> "file", content |-> content, mode |-> mode, target |-> <<>>]
SlDir == [kind |-> "dir", content |-> "", mode |-> Mode755, target |-> <<>>]
SlLink(target) == [kind |-> "link", content |-> "", mode |-> 511, target |-> target]

SlPaths ==
    {<<"bin">>, <<"bin", "python3.9">>, <<"bin", "python3">>, <<"bin", "python">>,
     <<"bin", "data">>, <<"bin", "d">>, <<"bin", "d", "l">>, <<"bin", "gone">>,
     <<"lib">>, <<"lib", "readme">>, <<"lib", "real">>, <<"lib", "real", "l">>,
     <<"bin", "self">>, <<"bin", "a">>, <<"bin", "b">>, <<"bin", "d", "up">>,
     <<"lib", "real", "up">>}

Enoent == <<"ENOENT">>

\* path.resolve(dir, target)
RECURSIVE resolve(_, _)
resolve(dir, target) ==
    IF target = <<>> THEN dir
    ELSE IF Head(target) = "/" THEN resolve(<<>>, Tail(target))
    ELSE IF Head(target) = ".."
           THEN resolve(IF dir = <<>> THEN <<>> ELSE dirname(dir), Tail(target))
           ELSE resolve(Append(dir, Head(target)), Tail(target))

slPresent(tree, f) == f \in DOMAIN tree /\ tree[f].kind # Absent

\* What existsSync and statSync look at: the entry at the end of the chain of links
\* that starts at path, or Enoent; a chain that comes back to a link it went through
\* (ELOOP) is no entry either
RECURSIVE realpathFrom(_, _, _)
realpathFrom(tree, path, seen) ==
    IF ~slPresent(tree, path) \/ path \in seen THEN Enoent
    ELSE IF tree[path].kind = "link"
           THEN realpathFrom(tree, resolve(dirname(path), tree[path].target),
                             seen \cup {path})
           ELSE path

realpath(tree, path) == realpathFrom(tree, path, {})

\* fs.readdirSync(dir, { withFileTypes: true })
slReaddir(tree, dir) ==
    {f \in DOMAIN tree : /\ Len(f) = Len(dir) + 1
                         /\ SubSeq(f, 1, Len(dir)) = dir
                         /\ tree[f].kind # Absent}

IsBelow(f, dir) == Len(f) > Len(dir) /\ SubSeq(f, 1, Len(dir)) = dir

\* fs.cpSync(src, dst, { recursive: true }): directories and files are copied, a
\* symbolic link is copied as a symbolic link to the resolved target
cpSync(tree, src, dst) ==
    [f \in DOMAIN tree |->
        IF f = dst THEN SlDir
        ELSE IF IsBelow(f, dst)
               THEN LET from == src \o SubSeq(f, Len(dst) + 1, Len(f)) IN
                    IF ~slPresent(tree, from) THEN SlNone
                    ELSE IF tree[from].kind = "link"
                           THEN SlLink(<<"/">> \o resolve(dirname(from), tree[from].target))
                           ELSE tree[from]
               ELSE tree[f]]

\* A copy that does not keep the mode of the target
copiedFilePlain(node) == SlFile(node.content, 420)

\* fs.copyFileSync(targetPath, fullPath); fs.chmodSync(fullPath, stat.mode)
copiedFile(node) == SlFile(node.content, node.mode)

\* replaceSymlinks(pythonDir) is called: the listing of the directory is read
ReplaceSymlinksStart ==
    /\ spc = "idle"
    /\ swork' = <<[dir |-> <<>>, todo |-> slReaddir(stree, <<>>)]>>
    /\ spc' = "walk"
    /\ UNCHANGED <<stree, sinit, sdest>>
    /\ UNCHANGED <<rtVars, rsVars, bdVars, pmVars, mnVars>>

\* The entry taken off the listing of the innermost call
SlTaken(e) == [swork EXCEPT ![Len(swork)].todo = @ \ {e}]

\* One iteration on a symbolic link: unlink, then copy the target if it exists
ReplaceLink ==
    /\ spc = "walk"
    /\ \E e \in swork[Len(swork)].todo :
         /\ stree[e].kind = "link"
         /\ LET unlinked == [stree EXCEPT ![e] = SlNone]
                targetPath == resolve(dirname(e), stree[e].target)
                at == realpath(unlinked, targetPath)
            IN IF at # Enoent /\ unlinked[at].kind = "dir" /\ IsBelow(e, at)
                 THEN \* cpSync refuses to copy a directory into itself
                      /\ stree' = unlinked
                      /\ swork' = <<>>
                      /\ spc' = "thrown"
                 ELSE /\ stree' = IF at = Enoent THEN unlinked
                                   ELSE IF unlinked[at].kind = "dir"
                                          THEN cpSync(unlinked, at, e)
                                   ELSE [unlinked EXCEPT ![e] = copiedFile(unlinked[at])]
                      /\ swork' = SlTaken(e)
                      /\ UNCHANGED spc
    /\ UNCHANGED <<sinit, sdest>>
    /\ UNCHANGED <<rtVars, rsVars, bdVars, pmVars, mnVars>>

\* One iteration on a directory: the recursive call reads its listing
ReplaceDir ==
    /\ spc = "walk"
    /\ \E e \in swork[Len(swork)].todo :
         /\ stree[e].kind = "dir"
         /\ swork' = Append(SlTaken(e), [dir |-> e, todo |-> slReaddir(stree, e)])
    /\ UNCHANGED <<stree, sinit, spc, sdest>>
    /\ UNCHANGED <<rtVars, rsVars, bdVars, pmVars, mnVars>>

\* One iteration on a regular file: nothing is done
ReplaceOther ==
    /\ spc = "walk"
    /\ \E e \in swork[Len(swork)].todo :
         /\ stree[e].kind = "file"
         /\ swork' = SlTaken(e)
    /\ UNCHANGED <<stree, sinit, spc, sdest>>
    /\ UNCHANGED <<rtVars, rsVars, bdVars, pmVars, mnVars>>

\* The loop of the innermost call is over: it returns
ReplaceReturn ==
    /\ spc = "walk"
    /\ swork[Len(swork)].todo = {}
    /\ swork' = SubSeq(swork, 1, Len(swork) - 1)
    /\ spc' = IF Len(swork) = 1 THEN "done" ELSE "walk"
    /\ UNCHANGED <<stree, sinit, sdest>>
    /\ UNCHANGED <<rtVars, rsVars, bdVars, pmVars, mnVars>>

\* The entries copyDir(src, dest) visits: it recurses into entry.isDirectory()
RECURSIVE copyDirEntries(_)
copyDirEntries(dir) ==
    UNION {IF stree[e].kind = "dir" THEN {e} \cup copyDirEntries(e) ELSE {e} :
             e \in slReaddir(stree, dir)}

\* What copyDir writes for an entry: a directory, a symbolic link with the target
\* readlink returned, or a copy of the file with the mode of the source
copyDirEntry(node) ==
    CASE node.kind = "dir" -> SlDir
      [] node.kind = "link" -> SlLink(node.target)
      [] OTHER -> SlFile(node.content, node.mode)

\* buildPlatformPackage: copyDir(libexecSrcDir, libexecDestDir), the tree being the
\* libexec directory of the xpack
CopyDir ==
    /\ spc = "idle"
    /\ sdest' = [f \in DOMAIN stree |->
                    IF f \in copyDirEntries(<<>>) THEN copyDirEntry(stree[f]) ELSE SlNone]
    /\ spc' = "copied"
    /\ UNCHANGED <<stree, sinit, swork>>
    /\ UNCHANGED <<rtVars, rsVars, bdVars, pmVars, mnVars>>

SlNext ==
    \/ ReplaceSymlinksStart
    \/ ReplaceLink
    \/ ReplaceDir
    \/ ReplaceOther
    \/ ReplaceReturn
    \/ CopyDir

\* An extracted tree: an interpreter and a text file, and any of: links to the
\* interpreter (one through the other), a link in bin/ to the text file, a link to
\* a directory (which holds a link itself), a link to nothing.
SlInit ==
    /\ \E opt \in SUBSET {<<"bin", "python3">>, <<"bin", "python">>, <<"bin", "data">>,
                          <<"bin", "d">>, <<"bin", "gone">>, <<"lib", "real">>,
                          <<"lib", "real", "l">>} :
         /\ <<"lib", "real", "l">> \in opt => <<"lib", "real">> \in opt
         /\ stree = [f \in SlPaths |->
              CASE f \in {<<"bin">>, <<"lib">>} -> SlDir
                [] f = <<"bin", "python3.9">> -> SlFile("elf", Mode755)
                [] f = <<"lib", "readme">> -> SlFile("text", 420)
                [] f \notin opt -> SlNone
                [] f = <<"bin", "python3">> -> SlLink(<<"python3.9">>)
                [] f = <<"bin", "python">> -> SlLink(<<"python3">>)
                [] f = <<"bin", "data">> -> SlLink(<<"..", "lib", "readme">>)
                [] f = <<"bin", "d">> -> SlLink(<<"..", "lib", "real">>)
                [] f = <<"bin", "gone">> -> SlLink(<<"missing">>)
                [] f = <<"lib", "real">> -> SlDir
                [] f = <<"lib", "real", "l">> -> SlLink(<<"..", "readme">>)]
    /\ sinit = stree
    /\ swork = <<>>
    /\ spc = "idle"
    /\ sdest = [f \in SlPaths |-> SlNone]

InitSymlinks == SlInit /\ host = <<"linux", "x64">> /\ RtIdle /\ RsIdle /\ BdIdle /\ PmIdle /\ MnIdle

SpecSymlinks == InitSymlinks /\ [][SlNext]_vars

\* ---- The two tree walks, on trees with links that form cycles ----

\* statSync(fullPath).isDirectory(), which follows a symbolic link
fpIsDirectoryStat(tree, e) ==
    realpath(tree, e) # Enoent /\ tree[realpath(tree, e)].kind = "dir"

\* entry.isDirectory() of a Dirent: true for a directory, false for a symbolic link
fpIsDirectory(tree, e) == tree[e].kind = "dir"

\* fixPermissions(dir) is called: it returns at once when dir does not exist, else
\* the listing of the directory is read
FixPermissionsStart ==
    /\ spc = "idle"
    /\ \E dir \in {<<"bin">>, <<"lib">>, <<"libexec">>} :
         IF ~slPresent(stree, dir)
           THEN spc' = "fixed" /\ UNCHANGED swork
           ELSE /\ swork' = <<[dir |-> dir, todo |-> slReaddir(stree, dir)]>>
                /\ spc' = "fix"
    /\ UNCHANGED <<stree, sinit, sdest>>
    /\ UNCHANGED <<rtVars, rsVars, bdVars, pmVars, mnVars>>

\* One iteration on entry.isDirectory(): the recursive call reads its listing
FixDir ==
    /\ spc = "fix"
    /\ \E e \in swork[Len(swork)].todo :
         /\ fpIsDirectory(stree, e)
         /\ swork' = Append(SlTaken(e), [dir |-> e, todo |-> slReaddir(stree, e)])
    /\ UNCHANGED <<stree, sinit, spc, sdest>>
    /\ UNCHANGED <<rtVars, rsVars, bdVars, pmVars, mnVars>>

\* One iteration on entry.isFile(): chmodSync, whose failure is ignored
FixFile ==
    /\ spc = "fix"
    /\ \E e \in swork[Len(swork)].todo :
         /\ ~fpIsDirectory(stree, e)
         /\ stree[e].kind = "file"
         /\ \/ stree' = [stree EXCEPT ![e].mode = Mode755]
            \/ UNCHANGED stree
         /\ swork' = SlTaken(e)
    /\ UNCHANGED <<sinit, spc, sdest>>
    /\ UNCHANGED <<rtVars, rsVars, bdVars, pmVars, mnVars>>

\* One iteration on an entry that is neither: a symbolic link is passed over
FixSkip ==
    /\ spc = "fix"
    /\ \E e \in swork[Len(swork)].todo :
         /\ ~fpIsDirectory(stree, e)
         /\ stree[e].kind # "file"
         /\ swork' = SlTaken(e)
    /\ UNCHANGED <<stree, sinit, spc, sdest>>
    /\ UNCHANGED <<rtVars, rsVars, bdVars, pmVars, mnVars>>

\* The loop of the innermost call of fixPermissions is over: it returns
FixReturn ==
    /\ spc = "fix"
    /\ swork[Len(swork)].todo = {}
    /\ swork' = SubSeq(swork, 1, Len(swork) - 1)
    /\ spc' = IF Len(swork) = 1 THEN "fixed" ELSE "fix"
    /\ UNCHANGED <<stree, sinit, sdest>>
    /\ UNCHANGED <<rtVars, rsVars, bdVars, pmVars, mnVars>>

WalkNext ==
    \/ ReplaceSymlinksStart
    \/ ReplaceLink
    \/ ReplaceDir
    \/ ReplaceOther
    \/ ReplaceReturn
    \/ FixPermissionsStart
    \/ FixDir
    \/ FixFile
    \/ FixSkip
    \/ FixReturn

\* A tree with an interpreter and a text file, and any of: a link to the interpreter,
\* a link to itself, two links that point to each other, a directory lib/real, a
\* link in it to its parent, and a link in bin/ to that directory.
WalkInit ==
    /\ \E opt \in SUBSET {<<"bin", "python3">>, <<"bin", "self">>, <<"bin", "a">>,
                          <<"bin", "b">>, <<"bin", "d">>, <<"lib", "real">>,
                          <<"lib", "real", "up">>} :
         /\ <<"lib", "real", "up">> \in opt => <<"lib", "real">> \in opt
         /\ stree = [f \in SlPaths |->
              CASE f \in {<<"bin">>, <<"lib">>} -> SlDir
                [] f = <<"bin", "python3.9">> -> SlFile("elf", Mode755)
                [] f = <<"lib", "readme">> -> SlFile("text", 420)
                [] f \notin opt -> SlNone
                [] f = <<"bin", "python3">> -> SlLink(<<"python3.9">>)
                [] f = <<"bin", "self">> -> SlLink(<<"self">>)
                [] f = <<"bin", "a">> -> SlLink(<<"b">>)
                [] f = <<"bin", "b">> -> SlLink(<<"a">>)
                [] f = <<"bin", "d">> -> SlLink(<<"..", "lib", "real">>)
                [] f = <<"lib", "real">> -> SlDir
                [] f = <<"lib", "real", "up">> -> SlLink(<<"..">>)]
    /\ sinit = stree
    /\ swork = <<>>
    /\ spc = "idle"
    /\ sdest = [f \in SlPaths |-> SlNone]

InitWalks == WalkInit /\ host = <<"linux", "x64">> /\ RtIdle /\ RsIdle /\ BdIdle /\ PmIdle /\ MnIdle

\* Each walk is one synchronous call: once started it keeps taking steps
SpecWalks == InitWalks /\ [][WalkNext]_vars /\ WF_vars(WalkNext)

-----------------------------------------------------------------------------
(* Properties of the python runtime.                                       *)

IsExtractCall(c) == c.op \in {"extract", "getPythonPath"} /\ ~VersionMissing(c.version)
CallDest(c) == DestPath(c.dest, c.version)
OwnTgz(c) == TgzName(getPlatformPackageName(host), c.version)

\* A call that unpacked every entry and finished the permission pass
Materialized(c, r) == IsExtractCall(c) /\ r.kind = "path" /\ ~r.hit

\* Some call of the history completed a materialization into destination d
CompletedAt(d) ==
    \E p \in Procs :
        \/ Materialized(call[p], res[p]) /\ CallDest(call[p]) = d
        \/ Materialized(prev[p].call, prev[p].res) /\ CallDest(prev[p].call) = d

\* C1: two consecutive successful getPythonPath calls with the same version and dest,
\* the first starting without a marker, run npm pack exactly once: the second call
\* finds the marker, returns the same path and runs no transport.
C1_IdempotentCache ==
    \A p \in Procs :
        ( /\ prev[p].call.op = "getPythonPath"
          /\ call[p] = prev[p].call
          /\ Materialized(prev[p].call, prev[p].res)
          /\ pc[p] = "returned" /\ res[p].kind = "path" )
        => /\ prev[p].res.packs = 1
           /\ res[p].packs = 0
           /\ res[p].hit
           /\ res[p].val = prev[p].res.val

\* C2: while extract runs or after it ended, <destPath>/package.json exists only if
\* an unpack into destPath and the permission pass have completed.
C2_MarkerWrittenLast ==
    \A p \in Procs :
        IsExtractCall(call[p]) =>
            (existsSync(MarkerFile(CallDest(call[p]))) => CompletedAt(CallDest(call[p])))

FailedMaterializing(c, r) ==
    IsExtractCall(c) /\ r.kind = "throw" /\ r.at \in {"mkdir", "unpack", "fixPermissions"}

C4_ReturnedPathIsOfVersion ==
    \A p \in Procs :
        (IsExtractCall(call[p]) /\ pc[p] = "returned" /\ res[p].kind = "path")
        => \A i \in 1..Len(ArchiveEntries) :
              disk[CallDest(call[p]) \o ArchiveEntries[i].path].src = call[p].version

\* C7: a call of getPythonPath, extract or download whose version is missing or empty
\* throws in the step of the call, with the destination directories, the temp
\* directory and the set of transport commands unchanged; and every transport
\* command names the version its caller gave, never a substituted one.
C7_VersionRequired ==
    [][ \A p \in Procs :
          /\ (ncalls'[p] # ncalls[p] /\ call'[p].version \in {Undefined, ""})
                => /\ pc'[p] = "thrown"
                   /\ res'[p].kind = "throw"
                   /\ <<disk, dirs, tmp, cmds>>' = <<disk, dirs, tmp, cmds>>
          /\ (pc[p] = "npmPack" /\ pc'[p] # "npmPack")
                => /\ call[p].version \in Versions
                   /\ cmds' \ cmds \subseteq
                        {[cmd |-> "npm pack", pkg |-> getPlatformPackageName(host),
                          version |-> call[p].version]} ]_vars

\* C7 witness: getPythonPath without a version and then extract with an empty
\* version have both thrown.
C7_Witness ==
    \E p \in Procs :
        /\ prev[p].call.op = "getPythonPath" /\ prev[p].call.version = Undefined
        /\ prev[p].res.kind = "throw"
        /\ call[p].op = "extract" /\ call[p].version = ""
        /\ pc[p] = "thrown"

\* C8: after download ended, by return or by throw, the tarball its npm pack wrote
\* into the temp directory no longer exists.
C8_TarballRemoved ==
    \A p \in Procs :
        (pc[p] \in {"returned", "thrown", "mkdir", "unpack", "fixPermissions"}
            /\ res[p].packs > 0)
        => tmp[OwnTgz(call[p])] = Absent

\* C9: each download returns the archive of the version it asked for and deletes only
\* the tarball its own npm pack wrote.
C9_OwnTarballOnly ==
    \A p \in Procs :
        (archive[p] # None /\ pc[p] \in {"returned", "mkdir", "unpack", "fixPermissions"})
        => /\ archive[p] = call[p].version
           /\ tgz[p] = OwnTgz(call[p])


\* Process p is in the middle of a materialization into destination d
Materializing(p, d) ==
    /\ IsExtractCall(call[p])
    /\ CallDest(call[p]) = d
    /\ pc[p] \in {"unpack", "fixPermissions"}

\* C23: a call of extract or getPythonPath that returns through the cache-hit branch
\* does so while no other process is unpacking or fixing permissions at its
\* destination, and after some call has completed unpack and the permission pass there.
C23_CacheHitAfterCompletion ==
    [][ \A q \in Procs :
          ( /\ ncalls'[q] # ncalls[q]
            /\ IsExtractCall(call'[q])
            /\ res'[q].hit )
          => /\ \A p \in Procs \ {q} : ~Materializing(p, CallDest(call'[q]))
             /\ CompletedAt(CallDest(call'[q])) ]_vars

\* The statements of download at which a call can throw
FetchStages == {"download", "npmPack", "find", "readFile", "gunzip", "rm"}

\* C19: no step taken before extract reaches mkdirSync changes a destination file
\* or directory, and when download has thrown inside extract the destination
\* carries no completion marker.
C19_FetchFailureLeavesDest ==
    [][ /\ (\A p \in Procs : pc[p] \notin {"mkdir", "unpack", "fixPermissions"})
              => (disk' = disk /\ dirs' = dirs)
        /\ \A p \in Procs :
              ( /\ IsExtractCall(call'[p])
                /\ pc'[p] = "thrown"
                /\ res'[p].at \in FetchStages )
              => disk'[MarkerFile(CallDest(call'[p]))] = NoFile ]_vars

\* C19 witness: extract into the cache failed at gunzip and the cache directory of
\* the version was not created
C19_Witness ==
    \E p \in Procs :
        /\ call[p].op = "extract" /\ call[p].dest = NoDest
        /\ pc[p] = "thrown" /\ res[p].at = "gunzip"
        /\ CallDest(call[p]) \notin dirs


-----------------------------------------------------------------------------
(* Properties of the platform lookups and of the patchelf resolver.        *)

\* C6 as stated: a supported pair yields `@xspect-build/<tool>-<os>-<cpu>`, and for a
\* pair outside the table the lookup itself fails with an error instead of
\* returning null.
C6_LookupThrowsIfUnsupported ==
    /\ rret.op = "getPlatformPackageName" =>
          IF host \in DOMAIN pythonPlatformPackageMap
            THEN rret.kind = "return" /\ rret.val = <<PackageName("python", host)>>
            ELSE rret.kind = "throw"
    /\ rret.op = "patchelfPackageName" =>
          IF host \in DOMAIN patchelfPlatformPackageMap
            THEN rret.kind = "return" /\ rret.val = <<PackageName("patchelf", host)>>
            ELSE rret.kind = "throw"

PythonKeys == {<<"linux", "x64">>, <<"linux", "arm64">>}
PatchelfKeys ==
    {<<"darwin", "arm64">>, <<"darwin", "x64">>, <<"linux", "arm64">>, <<"linux", "arm">>,
     <<"linux", "x64">>}

\* C6 amended: a supported pair yields `@xspect-build/<tool>-<os>-<cpu>`; for a pair
\* outside the table the lookup returns null (no name, no default) and it is the
\* callers that fail: download throws "Unsupported platform" and getPatchelfPath
\* throws its not-found error.
C6_LookupTotal ==
    /\ rret.op = "getPlatformPackageName" =>
          /\ rret.kind = "return"
          /\ rret.val = IF host \in PythonKeys THEN <<PackageName("python", host)>> ELSE <<Null>>
    /\ rret.op = "patchelfPackageName" =>
          /\ rret.kind = "return"
          /\ rret.val = IF host \in PatchelfKeys THEN <<PackageName("patchelf", host)>> ELSE <<Null>>
    /\ rret.op = "download" =>
          IF host \in PythonKeys THEN rret.kind = "npmPack"
          ELSE rret.kind = "throw" /\ rret.val = <<"Unsupported platform">>
    /\ (rret.op = "findBinaryPath" /\ host \notin PatchelfKeys) => rret.val = <<Null>>
    /\ (rret.op = "getPatchelfPath" /\ host \notin PatchelfKeys) => rret.kind = "throw"

\* C6 witness: the lookup was applied to a pair outside both tables
C6_Witness ==
    /\ host = <<"win32", "x64">>
    /\ rret.op = "getPlatformPackageName"
    /\ rret.val = <<Null>>

\* C10: the path findBinaryPath returns is the first of the three probed locations
\* that exists and is a regular file; a location that is not a regular file is never
\* returned.
C10_FirstRegularFile ==
    (rret.op = "findBinaryPath" /\ rret.val # <<Null>>) =>
        LET pkg == patchelfPackageName(host)
            path == rret.val[1]
            paths == possiblePaths(pkg)
        IN /\ nm[path] = "file"
           /\ \A i \in 1..Len(paths) :
                 path = paths[i] => \A j \in 1..(i - 1) : nm[paths[j]] # "file"

\* C11: on a host where no probed location exists, getPatchelfPath and getBinDir
\* throw the error that says the binary was not found and that the optional
\* dependency may have failed to install; neither of them ever returns null.
C11_NotFoundThrows ==
    rret.op \in {"getPatchelfPath", "getBinDir"} =>
        /\ rret.kind \in {"return", "throw"}
        /\ rret.kind = "return" => rret.val # <<Null>>
        /\ ( \/ host \notin PatchelfKeys
             \/ \A f \in DOMAIN nm : f[Len(f)] = "patchelf" => nm[f] = Absent )
           => /\ rret.kind = "throw"
              /\ rret.val[1][1] = "patchelf binary not found for platform"
              /\ rret.val[1][3] =
                    "platform is not supported or the optional dependency failed to install"

\* C11 witness: getBinDir has thrown on a supported host with nothing installed
C11_Witness ==
    /\ host = <<"linux", "x64">>
    /\ \A f \in DOMAIN nm : nm[f] = Absent
    /\ rret.op = "getBinDir"
    /\ rret.kind = "throw"

\* C12: isPatchelfAvailable always returns a boolean, and returns true exactly when
\* getPatchelfPath on the same filesystem returns a path and X_OK access to that
\* path is granted.
C12_AvailableIffExecutable ==
    rret.op = "isPatchelfAvailable" =>
        /\ rret.kind = "return"
        /\ rret.val \in {<<"true">>, <<"false">>}
        /\ rret.val = <<"true">> <=>
              /\ host \in PatchelfKeys
              /\ \E f \in DOMAIN nm :
                    /\ nm[f] # Absent
                    /\ f # resolvedPackageJson(patchelfPackageName(host))
                    /\ getPatchelfPath = [kind |-> "return", val |-> f]
                    /\ f \notin nox

\* C12 witness: the binary is installed but not executable by the process, and
\* isPatchelfAvailable returned false
C12_Witness ==
    /\ rret.op = "isPatchelfAvailable"
    /\ rret.val = <<"false">>
    /\ findBinaryPath # Null
    /\ nm[findBinaryPath] = "file"
    /\ findBinaryPath \in nox


-----------------------------------------------------------------------------
(* Properties of the permission pass.                                      *)

\* The pass ran over an installed payload
PassCompleted ==
    /\ pret.op \in {"extract", "postinstall"}
    /\ pret.kind = "return"
    /\ pret.op = "postinstall" => (host \in PatchelfKeys /\ pinst)

\* C13: after a completed materialization every regular file below bin/ and below
\* libexec/ has mode 0o755 unless its chmod failed, and everything else (files
\* elsewhere, directories, symbolic links) has the mode it was unpacked with.
C13_BinAndLibexecExecutable ==
    PassCompleted =>
        \A f \in DOMAIN ptree :
            IF ptree[f].kind = "file" /\ f[1] \in {"bin", "libexec"}
              THEN ptree[f].mode = IF f \in pro THEN 420 ELSE Mode755
              ELSE ptree[f].mode = UnpackedMode(ptree[f].kind)

\* The directories the pass of an operation is given
PassDirs == IF pret.op = "extract" THEN {"bin"} ELSE {"bin", "libexec"}

\* C14: a pass always ends normally (extract returns the python directory, the
\* postinstall script completes), whichever chmod calls failed and whichever of
\* bin/ and libexec/ is missing, and every file of its directories whose chmod did
\* not fail has mode 0o755.
C14_ChmodBestEffort ==
    pret.op # None =>
        /\ pret.kind = "return"
        /\ pret.op = "extract" => pret.val = "pythonDir"
        /\ PassCompleted =>
              /\ pret.op = "postinstall" => pret.val = "Installation complete"
              /\ \A f \in DOMAIN ptree :
                    (ptree[f].kind = "file" /\ f[1] \in PassDirs /\ f \notin pro)
                        => ptree[f].mode = Mode755

\* C14 witness: postinstall completed on a package without libexec/ where the chmod
\* of bin/tool failed and bin/sub/deep was made executable
C14_Witness ==
    /\ PassCompleted /\ pret.op = "postinstall"
    /\ ptree[<<"libexec">>].kind = Absent
    /\ <<"bin", "tool">> \in pro /\ ptree[<<"bin", "tool">>].mode = 420
    /\ ptree[<<"bin", "sub", "deep">>].mode = Mode755


-----------------------------------------------------------------------------
(* Properties of the symbolic links.                                       *)

\* C15: a tree that replaceSymlinks has finished with, and a tree copyDir has
\* written, hold no symbolic link at any depth.
C15_NoSymlinkPublished ==
    /\ spc = "done" => \A f \in DOMAIN stree : stree[f].kind # "link"
    /\ spc = "copied" => \A f \in DOMAIN sdest : sdest[f].kind # "link"

\* The links of the extracted tree whose chain ends at a regular file
FileLinks ==
    {f \in DOMAIN sinit : /\ sinit[f].kind = "link"
                          /\ realpath(sinit, f) # Enoent
                          /\ sinit[realpath(sinit, f)].kind = "file"}

\* The location of link f holds a regular file with the content of the target, and
\* the target is as it was
RoundTrip(f) ==
    LET target == realpath(sinit, f) IN
    /\ stree[f].kind = "file"
    /\ stree[f].content = sinit[target].content
    /\ stree[target] = sinit[target]

\* C16 as stated: after replaceSymlinks every link to a regular file is a regular
\* file with the target's content, the target is unchanged, and the new file is
\* executable whenever it lies in bin/.
C16_RoundTripExecutableInBin ==
    spc = "done" =>
        \A f \in FileLinks :
            /\ RoundTrip(f)
            /\ f[1] = "bin" => stree[f].mode = Mode755

\* C16 amended: after replaceSymlinks every link to a regular file is a regular
\* file with the target's content and the target's mode (executable exactly when
\* the target is, in bin/ or elsewhere), and the target is unchanged.
C16_RoundTripKeepsMode ==
    spc = "done" =>
        \A f \in FileLinks :
            /\ RoundTrip(f)
            /\ stree[f].mode = sinit[realpath(sinit, f)].mode

\* C16 witness: a chain of two links to the interpreter and a link in bin/ to a
\* file that is not executable have been replaced
C16_Witness ==
    /\ spc = "done"
    /\ {<<"bin", "python">>, <<"bin", "python3">>, <<"bin", "data">>} \subseteq FileLinks
    /\ stree[<<"bin", "python">>].mode = Mode755
    /\ stree[<<"bin", "data">>].mode = 420


-----------------------------------------------------------------------------
(* Properties of the build scripts.                                        *)

TransportCommands == {"curl", "npx xpm install"}

SupportedBuildPlatforms(script) ==
    IF script = "build-python" THEN {<<"linux", "x64">>, <<"linux", "arm64">>}
    ELSE BuildPlatforms

\* The curl commands of the run, in the order they were started
Curls == SelectSeq(bcmds, LAMBDA c : c.cmd = "curl")

\* C17 as stated: the mirror is the first source contacted, and the authenticated
\* origin is contacted only after a mirror attempt and only when the token is set.
C17_MirrorFirst ==
    /\ Len(Curls) > 0 => Curls[1].from = MIRROR_BASE
    /\ \A i \in 1..Len(Curls) :
          Curls[i].from = GITHUB_BASE =>
              /\ benv
              /\ \E j \in 1..(i - 1) : Curls[j].from = MIRROR_BASE

\* C17 amended: a run contacts one source, once: the authenticated origin when
\* GITHUB_TOKEN is set, the mirror (without credentials) when it is not; there is
\* no fallback from one to the other.
C17_SourceByToken ==
    /\ Len(Curls) <= 1
    /\ \A i \in 1..Len(Curls) :
          /\ Curls[i].from = IF benv THEN GITHUB_BASE ELSE MIRROR_BASE
          /\ Curls[i].auth = benv
    /\ (barg.script = "build-python" /\ bpc \in {"tar", "package"}) => Len(Curls) = 1

\* C17 witness: with the token set the download from the origin failed and the run
\* ended there
C17_Witness ==
    /\ benv
    /\ bpc = "idle" /\ bexit = "throw"
    /\ bcmds = <<[cmd |-> "curl", from |-> GITHUB_BASE, auth |-> TRUE]>>

\* C18: the file given to tar is the archive of a successful download, never the
\* body of a failed request, and curl is started at most once in a run.
C18_FailedDownloadNotExtracted ==
    /\ Len(Curls) <= 1
    /\ \A i \in 1..Len(bcmds) : bcmds[i].cmd = "tar" => bcmds[i].from = "tar.gz"

\* C20: a run of build.js that ends reporting success met no failed xpm install, no
\* missing binary directory and no missing binary: nothing was written to console.error.
C20_NoFailureSwallowed ==
    (barg.script = "build" /\ bpc = "idle" /\ bexit = "ok") => blog = {}

\* The package.json files of python platform packages in dist/
PythonManifests == {e \in bdist : e.file = <<"package.json">> /\ e.dir[1] = "python"}

FivePlatformPackages(packageName) ==
    {<<"@xspect-build", packageName>> \o k :
        k \in {<<"darwin", "arm64">>, <<"darwin", "x64">>, <<"linux", "arm64">>,
               <<"linux", "arm">>, <<"linux", "x64">>}}

\* C21: when prepareMainPackage has completed, the optionalDependencies of the main
\* package.json are exactly the five platform packages, whatever the source listed,
\* each pinned to the version field of the main package, and every platform package.json
\* that buildPlatformPackage wrote in dist carries that same version.
C21_OptionalDependenciesExact ==
    (barg.script = "prepare-main" /\ bpc = "idle" /\ bexit = "ok") =>
        /\ DOMAIN mmain.optionalDependencies = FivePlatformPackages(barg.package)
        /\ \A n \in DOMAIN mmain.optionalDependencies :
               mmain.optionalDependencies[n] = mmain.version
        /\ \A e \in bdist :
               (e.file = <<"package.json">> /\ e.dir[1] = barg.package) =>
                   e.data = <<mmain.version>>

C21_Witness ==
    /\ barg.script = "prepare-main" /\ bpc = "idle" /\ bexit = "ok"
    /\ msrc.listed
    /\ DOMAIN msrc.optionalDependencies # FivePlatformPackages("patchelf")
    /\ msrc.version = "0.18.1"
    /\ \E e \in bdist : e.file = <<"package.json">> /\ e.dir = <<"patchelf", "linux", "x64">>

\* C5: a run of build-python or build-platform whose platform key is not in the
\* supported set of the package starts no transport command (curl, xpm install).
C5_NoTransportIfUnsupported ==
    \A i \in 1..Len(bcmds) :
        bcmds[i].cmd \in TransportCommands =>
            barg.platform \in SupportedBuildPlatforms(barg.script)

\* The package.json files of the platform packages of packageName in dist/
PlatformManifests(packageName) ==
    {e \in bdist : /\ e.file = <<"package.json">>
                   /\ Len(e.dir) > 1
                   /\ e.dir[1] = packageName}

\* The main package.json pins every optionalDependency it lists, and its own version,
\* to the version v
PinnedTo(v) ==
    /\ mmain.version = v
    /\ \A n \in DOMAIN mmain.optionalDependencies : mmain.optionalDependencies[n] = v

\* C24: when prepare-main-package.js has completed with --version V, every platform
\* package in dist that build-platform.js built with the same --version V has the
\* version that the main package carries and pins; when it has completed without
\* --version and a .version file exists, the platform package of the first such file
\* in PLATFORMS order has that version.
C24_VersionsAgree ==
    (barg.script = "prepare-main-versioned" /\ bpc = "idle" /\ bexit = "ok") =>
        /\ barg.release # None =>
              \A e \in PlatformManifests(barg.package) :
                  (e.dir \in DOMAIN mbuilt /\ mbuilt[e.dir] = barg.release)
                      => PinnedTo(e.data[1])
        /\ barg.release = None =>
              \A i \in 1..Len(PLATFORMS) :
                  \A e \in PlatformManifests(barg.package) :
                      ( /\ e.dir = PlatformPackageDir(barg.package, PLATFORMS[i])
                        /\ \A j \in 1..(i - 1) :
                              \A f \in PlatformManifests(barg.package) :
                                  f.dir # PlatformPackageDir(barg.package, PLATFORMS[j]) )
                      => PinnedTo(e.data[1])

\* C25: a platform package of dist/ that has a package.json has every binary of the
\* package configuration in its bin/ directory; a platform whose install failed, whose
\* binary directory or binary is missing has no package.json.
C25_ManifestImpliesPayload ==
    \A e \in bdist :
        (e.file = <<"package.json">> /\ Len(e.dir) > 1 /\ e.dir[1] \in DOMAIN PACKAGES) =>
            \A i \in 1..Len(PACKAGES[e.dir[1]].binaries) :
                \E b \in bdist :
                    /\ b.dir = e.dir
                    /\ b.file = <<"bin", PACKAGES[e.dir[1]].binaries[i]>>

\* The elements of a list
Range(list) == {list[i] : i \in 1..Len(list)}

\* C26: the platforms build.js builds patchelf for, PLATFORMS of
\* prepare-main-package.js and the keys of platformPackageMap in the resolver and in
\* postinstall.js are the same set; for every key both tables hold the name the build
\* scripts write for it, and every platform package.json that buildPackage has written
\* in dist carries a name both tables hold under its key.
C26_PlatformTablesAgree ==
    /\ Range(BuildPackagePlatforms) = Range(PLATFORMS)
    /\ Range(PLATFORMS) = DOMAIN patchelfPlatformPackageMap
    /\ DOMAIN patchelfPlatformPackageMap = DOMAIN postinstallPlatformPackageMap
    /\ Cardinality(DOMAIN postinstallPlatformPackageMap) = 5
    /\ \A k \in Range(BuildPackagePlatforms) \cup DOMAIN patchelfPlatformPackageMap
                \cup DOMAIN postinstallPlatformPackageMap :
           /\ k \in DOMAIN patchelfPlatformPackageMap
           /\ k \in DOMAIN postinstallPlatformPackageMap
           /\ patchelfPlatformPackageMap[k]
                 = platformPackageJsonName(PlatformPackageDir("patchelf", k))
           /\ postinstallPlatformPackageMap[k]
                 = platformPackageJsonName(PlatformPackageDir("patchelf", k))
           /\ depName("patchelf", k) = patchelfPlatformPackageMap[k]
    /\ \A e \in bdist :
           (e.file = <<"package.json">> /\ Len(e.dir) > 1) =>
               \E k \in DOMAIN patchelfPlatformPackageMap \cap DOMAIN postinstallPlatformPackageMap :
                   /\ e.dir = PlatformPackageDir("patchelf", k)
                   /\ patchelfPlatformPackageMap[k] = platformPackageJsonName(e.dir)
                   /\ postinstallPlatformPackageMap[k] = platformPackageJsonName(e.dir)

C26_Witness ==
    /\ barg.script = "build" /\ bpc = "idle" /\ bexit = "ok"
    /\ \A k \in DOMAIN patchelfPlatformPackageMap :
           \E e \in bdist : e.file = <<"package.json">>
                             /\ e.dir = PlatformPackageDir("patchelf", k)

\* C27: when replaceSymlinks has returned, every path that held a file, a directory or
\* a symbolic link before the call still holds an entry.
C27_NoEntryLost ==
    spc = "done" => \A f \in DOMAIN sinit : slPresent(sinit, f) => slPresent(stree, f)

\* The directories on the way from the directory a walk was called on down to dir
\* are directories of the tree, none of them a symbolic link
RealDirectory(dir) ==
    \A n \in 1..Len(dir) :
        LET d == SubSeq(dir, 1, n) IN slPresent(sinit, d) /\ sinit[d].kind = "dir"

\* C28: a started replaceSymlinks ends, by a return or by an error; a started
\* fixPermissions returns; and every directory fixPermissions has descended into is
\* reached through directories only, never through a symbolic link.
C28_WalksTerminate ==
    /\ (spc = "walk") ~> (spc \in {"done", "thrown"})
    /\ (spc = "fix") ~> (spc = "fixed")
    /\ [](spc = "fix" => \A i \in 1..Len(swork) : RealDirectory(swork[i].dir))

C28_Witness ==
    /\ spc = "fixed"
    /\ sinit[<<"lib", "real", "up">>].kind = "link"
    /\ sinit[<<"bin", "a">>].kind = "link" /\ sinit[<<"bin", "b">>].kind = "link"
    /\ stree[<<"lib", "readme">>].mode = Mode755

=============================================================================
